---- MODULE Spec2Model ----
(***************************************************************************)
(* Model of the storage devices of Nuvix-Tech/storage:                     *)
(*   - the Local device's chunked upload (chunk log, part files, join),    *)
(*   - Local.transfer / S3.transfer towards a Local destination,           *)
(*   - the S3 device's multipart bookkeeping in uploadData,                *)
(*   - Local.abort / S3.abort, Local.move / Device.move,                   *)
(*   - chunked uploads continued after a process restart,                  *)
(*   - the headers of requests issued concurrently on one S3 instance,     *)
(*   - two overlapping Local.uploadData calls, one awaited call per step.  *)
(* One target path of one device is modelled; a file is a record           *)
(* [exists, data] whose data is a sequence (bytes, or log lines).  The     *)
(* files of a target are fs = [dir, target, tmp, log, parts]: the target's *)
(* directory, the target, its tmp_<basename> directory, the chunk log and  *)
(* the part files inside it.                                               *)
(***************************************************************************)
EXTENDS Integers, Sequences, FiniteSets, TLC

VARIABLES
    fs,       \* the Local device's files for one target path
    total,    \* the totalChunks the caller passes in this upload
    fs0,      \* fs as it was before the first call
    n,        \* number of upload / uploadData calls made so far
    inOrder,  \* the calls so far carried the indices 1, 2, ..., n in that order
    faults,   \* number of filesystem calls that failed for an outside reason so far
    ops,      \* the methods called so far
    sent,     \* per index, the payload of the last call that wrote its part file
    last,     \* what the last call was given and what it did
    src,      \* transfer: the source file (Local) or object (S3)
    tcs,      \* transfer: the source device's transferChunkSize
    tres,     \* transfer: what the last transfer did
    bag,      \* S3: the metadata bag the caller passes to every uploadData call
    s3last,   \* S3: what the last uploadData call was given and what it did
    alast,    \* abort: what the last abort call found and what it did
    store,    \* move: the device (Local or S3) and what it holds at each path
    mlast,    \* move: what the last move call was given and what it did
    inst,     \* restart: the Local instance of the running process
    ref,      \* restart: the same calls made by one process that never restarts
    rlast,    \* restart: what the last call returned in both runs
    hdr,      \* requests: the S3 instance's headers and amzHeaders
    proc,     \* requests: per caller, the operation it runs and where it stands
    wire,     \* requests: per caller, the last request its operation sent
    race,     \* overlap: two uploadData calls on one target, step by step
    resolved, \* paths: a path, getAbsolutePath of it and of the result
    sig,      \* signing: an S3 instance, the arguments of getSignatureV4, its result
    del,      \* delete: what is at a path of the Local device, and the last delete call
    net,      \* backend: a device, the last operation called on it and its requests
    mpu,      \* multipart: the uploadIds the requests of uploadData and abort named
    dev,      \* headers: an S3 instance's headers and amzHeaders, and its last request
    up,       \* retries: the indices whose Local.uploadData call has returned
    cmp       \* completion: the parts of a metadata bag and the body built from them

localVars == <<total, fs0, inOrder, faults, ops, sent, last>>
transferVars == <<src, tcs, tres>>
s3Vars == <<bag, s3last>>
abortVars == <<alast>>
moveVars == <<store, mlast>>
restartVars == <<inst, ref, rlast>>
reqVars == <<hdr, proc, wire>>
raceVars == <<race>>
pathVars == <<resolved>>
signVars == <<sig>>
deleteVars == <<del>>
backendVars == <<net>>
multipartVars == <<mpu>>
headerVars == <<dev>>
retryVars == <<up>>
completeVars == <<cmp>>
moreVars == <<pathVars, signVars, deleteVars, backendVars, multipartVars, headerVars, retryVars,
              completeVars>>
laterVars == <<restartVars, reqVars, raceVars, moreVars>>
vars == <<fs, n, localVars, transferVars, s3Vars, abortVars, moveVars, laterVars>>

(***************************************************************************)
(* Bounds                                                                  *)
(***************************************************************************)
MaxChunks == 3
MaxCalls == 4
MaxFaults == 1
MaxChunkSize == 2
MaxTransfers == 2
MaxRestarts == 2
MaxPathLen == 5
MaxEntries == 2

Payloads == {<<1>>, <<2, 1>>}
OldContent == <<3>>

(***************************************************************************)
(* Files                                                                   *)
(***************************************************************************)
Absent == [exists |-> FALSE, data |-> <<>>]
File(d) == [exists |-> TRUE, data |-> d]

\* fs.appendFile: creates the file when it is missing, else appends
appendFile(f, d) == File(IF f.exists THEN f.data \o d ELSE d)

\* fs.writeFile / fs.rename onto a path: replaces whatever was there
writeFile(f, d) == File(d)

NoParts == [i \in 1..MaxChunks |-> Absent]

\* createDirectory(path.dirname(filePath)): mkdir -p of the target's directory
createDirectory(f) == [f EXCEPT !.dir = TRUE]

\* the count without trim(): the text ends in "\n", so split gives one entry more
CountLines_NoTrim(lines) == Len(lines) + 1

\* chunkLogs.trim().split("\n").length: "".split("\n") is [""], of length 1
CountLines(lines) == IF lines = <<>> THEN 1 ELSE Len(lines)

(***************************************************************************)
(* Outside failures of a filesystem call: the point of the handler at      *)
(* which it happens (at: the part index inside joinChunks).                *)
(***************************************************************************)
NoFault == [pt |-> "none", at |-> 0]
Fault(p, i) == [pt |-> p, at |-> i]
Faults ==
    {NoFault}
    \cup {Fault(p, 0) : p \in {"writeFile", "appendLog", "writePart", "unlinkLog", "rmdir"}}
    \cup {Fault(p, i) : p \in {"joinAppend", "joinUnlink"}, i \in 1..MaxChunks}

\* the result of a handler: the files it leaves, what it returned (0 when it
\* threw), whether the part file was written, whether the outside failure hit
Returned(f, r, w) == [fs |-> f, ret |-> r, threw |-> FALSE, wrote |-> w, hit |-> FALSE]
Threw(f, w, h) == [fs |-> f, ret |-> 0, threw |-> TRUE, wrote |-> w, hit |-> h]

\* an uploadData whose Error never names the chunk
uploadDataError_NoIndex(chunk, chunks) == [msg |-> "Can't write file", chunk |-> 0]

\* the Error a failing Local.uploadData throws: "Can't write file <path>" from
\* the single write, "Failed to write chunk <chunk>" from the chunked branch
uploadDataError(chunk, chunks) ==
    IF chunks = 1 THEN [msg |-> "Can't write file", chunk |-> 0]
    ELSE [msg |-> "Failed to write chunk", chunk |-> chunk]

\* the Error a failing Local.write throws: "Can't write to path <path>"
writeError == [msg |-> "Can't write to path", chunk |-> 0]

(***************************************************************************)
(* Local.joinChunks                                                        *)
(***************************************************************************)
\* the tmp directory can be removed only when it is empty
DirEmpty(f) == ~f.log.exists /\ \A i \in 1..MaxChunks : ~f.parts[i].exists

RECURSIVE joinFrom(_, _, _, _)
joinFrom(f, i, chunks, fault) ==
    IF i > chunks
    THEN IF fault = Fault("unlinkLog", 0) THEN Threw(f, TRUE, TRUE)
         ELSE IF ~f.log.exists THEN Threw(f, TRUE, FALSE)
         ELSE LET g == [f EXCEPT !.log = Absent]
              IN  IF fault = Fault("rmdir", 0) THEN Threw(g, TRUE, TRUE)
                  ELSE IF ~DirEmpty(g) THEN Threw(g, TRUE, FALSE)
                  ELSE Returned([g EXCEPT !.tmp = FALSE], chunks, TRUE)
    ELSE IF ~f.parts[i].exists THEN Threw(f, TRUE, FALSE)
         ELSE IF fault = Fault("joinAppend", i) THEN Threw(f, TRUE, TRUE)
         ELSE LET g == [f EXCEPT !.target = appendFile(f.target, f.parts[i].data)]
              IN  IF fault = Fault("joinUnlink", i) THEN Threw(g, TRUE, TRUE)
                  ELSE joinFrom([g EXCEPT !.parts[i] = Absent], i + 1, chunks, fault)

\* a join that takes the parts in the order of the log's lines (arrival order)
RECURSIVE joinLogged(_, _, _, _)
joinLogged(f, k, chunks, fault) ==
    IF k > chunks
    THEN joinFrom(f, chunks + 1, chunks, fault)
    ELSE LET i == f.log.data[k]
         IN  IF ~f.parts[i].exists THEN Threw(f, TRUE, FALSE)
             ELSE joinLogged([f EXCEPT !.target = appendFile(f.target, f.parts[i].data),
                                       !.parts[i] = Absent], k + 1, chunks, fault)

joinChunks_ArrivalOrder(f, chunks, fault) == joinLogged(f, 1, chunks, fault)

\* a join that passes over a part file it does not find
RECURSIVE joinPresent(_, _, _, _)
joinPresent(f, i, chunks, fault) ==
    IF i > chunks THEN joinFrom(f, i, chunks, fault)
    ELSE IF ~f.parts[i].exists THEN joinPresent(f, i + 1, chunks, fault)
    ELSE joinPresent([f EXCEPT !.target = appendFile(f.target, f.parts[i].data),
                               !.parts[i] = Absent], i + 1, chunks, fault)

joinChunks_SkipMissing(f, chunks, fault) == joinPresent(f, 1, chunks, fault)

joinChunks(f, chunks, fault) == joinFrom(f, 1, chunks, fault)

(***************************************************************************)
(* Local.uploadData                                                        *)
(***************************************************************************)
Local_uploadData(f, data, chunk, chunks, fault) ==
    IF chunks = 1
    THEN IF fault = Fault("writeFile", 0) THEN Threw(createDirectory(f), FALSE, TRUE)
         ELSE Returned([createDirectory(f) EXCEPT !.target = writeFile(f.target, data)], chunks, TRUE)
    ELSE LET d == [createDirectory(f) EXCEPT !.tmp = TRUE]
         IN  IF fault = Fault("appendLog", 0) THEN Threw(d, FALSE, TRUE)
             ELSE LET a == [d EXCEPT !.log = appendFile(d.log, <<chunk>>)]
                      chunksReceived == CountLines(a.log.data)
                  IN  IF fault = Fault("writePart", 0) THEN Threw(a, FALSE, TRUE)
                      ELSE LET w == [a EXCEPT !.parts[chunk] = writeFile(a.parts[chunk], data)]
                           IN  IF chunks = chunksReceived
                               THEN LET j == joinChunks(w, chunks, fault)
                                    IN  IF j.threw THEN j
                                        ELSE Returned(j.fs, chunksReceived, TRUE)
                               ELSE Returned(w, chunksReceived, TRUE)

(***************************************************************************)
(* Local.upload: the source file holds data and is renamed into place      *)
(***************************************************************************)
Local_upload(f, data, chunk, chunks, fault) ==
    IF chunks = 1
    THEN IF fault = Fault("writeFile", 0) THEN Threw(createDirectory(f), FALSE, TRUE)
         ELSE Returned([createDirectory(f) EXCEPT !.target = writeFile(f.target, data)], chunks, TRUE)
    ELSE LET d == [createDirectory(f) EXCEPT !.tmp = TRUE]
         IN  IF ~d.parts[chunk].exists /\ fault = Fault("appendLog", 0) THEN Threw(d, FALSE, TRUE)
             ELSE LET a == IF ~d.parts[chunk].exists
                           THEN [d EXCEPT !.log = appendFile(d.log, <<chunk>>)]
                           ELSE d
                  IN  IF ~a.log.exists THEN Threw(a, FALSE, FALSE)
                      ELSE LET chunksReceived == CountLines(a.log.data)
                           IN  IF fault = Fault("writePart", 0) THEN Threw(a, FALSE, TRUE)
                               ELSE LET w == [a EXCEPT !.parts[chunk] = writeFile(a.parts[chunk], data)]
                                    IN  IF chunks = chunksReceived
                                        THEN LET j == joinChunks(w, chunks, fault)
                                             IN  IF j.threw THEN j
                                                 ELSE Returned(j.fs, chunksReceived, TRUE)
                                        ELSE Returned(w, chunksReceived, TRUE)

(***************************************************************************)
(* Local.write                                                             *)
(***************************************************************************)
Local_write(f, data, fault) ==
    IF fault = Fault("writeFile", 0) THEN Threw(createDirectory(f), FALSE, TRUE)
    ELSE Returned([createDirectory(f) EXCEPT !.target = writeFile(f.target, data)], 1, TRUE)

(***************************************************************************)
(* Local.read: a buffer of `length` zero bytes (the rest of the file when  *)
(* no length is given) filled with the bytes the file has from offset on   *)
(***************************************************************************)
Undefined == -1

Local_read(content, offset, length) ==
    LET size == IF length = Undefined THEN Len(content) - offset ELSE length
    IN  [i \in 1..size |-> IF offset + i <= Len(content) THEN content[offset + i] ELSE 0]

\* what a read gives its caller
ReadResult(data) == [threw |-> FALSE, data |-> data]
ReadThrew == [threw |-> TRUE, data |-> <<>>]

\* S3.read: GET with "range: bytes=offset-(offset+length-1)" when a length is
\* given; the store answers with the bytes the object has in that range.
\* S3.call (and MinIO.call) hands the body back as the string of
\* response.text(), and read then calls response.body.arrayBuffer(): a string
\* has no such method, so read throws a TypeError whatever the store answered.
S3_read(content, offset, length) ==
    LET end == IF length = Undefined \/ offset + length > Len(content)
               THEN Len(content) ELSE offset + length
        body == [text |-> SubSeq(content, offset + 1, end), hasArrayBuffer |-> FALSE]
    IN  IF body.hasArrayBuffer THEN ReadResult(body.text) ELSE ReadThrew

\* Math.ceil(size / chunkSize)
Ceil(size, chunkSize) == (size + chunkSize - 1) \div chunkSize

(***************************************************************************)
(* Local.transfer and S3.transfer to a Local destination device.  kind is  *)
(* the source device; tf = [at, fault]: the call of the loop's iteration   *)
(* `at` (1 for the single-shot path) that fails, "read" for the source's   *)
(* read and a point of Faults inside the destination's handler.            *)
(***************************************************************************)
\* the calls a transfer made: read(path) of the whole object, device.write,
\* device.uploadData
\* and the arguments of every device.uploadData call, in the order of the calls
Calls(whole, writes, uploads) ==
    [whole |-> whole, writes |-> writes, uploads |-> uploads, log |-> <<>>]
Logged(calls, log) == [calls EXCEPT !.log = log]

\* device.uploadData(data, destination, contentType, counter + 1, totalChunks, metadata)
UploadDataCall(data, chunk, chunks) == [data |-> data, chunk |-> chunk, chunks |-> chunks]
NoCalls == Calls(FALSE, 0, 0)

\* an Error: its message and the chunk index the message carries (0: none)
NoError == [msg |-> "none", chunk |-> 0]
Err(m, c) == [msg |-> m, chunk |-> c]

NoTransfer == [kind |-> "none", ret |-> FALSE, threw |-> FALSE, hit |-> FALSE, failedAt |-> 0,
               calls |-> NoCalls, err |-> NoError]
TReturned(f, c) == [fs |-> f, ret |-> TRUE, threw |-> FALSE, hit |-> FALSE, failedAt |-> 0,
                    calls |-> c, err |-> NoError]
TThrew(f, h, at, c, e) == [fs |-> f, ret |-> FALSE, threw |-> TRUE, hit |-> h, failedAt |-> at,
                           calls |-> c, err |-> e]

NoTFault == [at |-> 0, fault |-> NoFault]
TFaults ==
    {NoTFault} \cup
    {[at |-> c, fault |-> ft] : c \in 1..MaxChunks, ft \in (Faults \ {NoFault}) \cup {Fault("read", 0)}}

ReadOf(kind, content, offset, length) ==
    IF kind = "local" THEN ReadResult(Local_read(content, offset, length))
    ELSE S3_read(content, offset, length)

\* the Error a throwing read raises: the filesystem's, or S3.read's TypeError
readError(kind) ==
    IF kind = "s3" THEN Err("response.body.arrayBuffer is not a function", 0)
    ELSE Err("read failed", 0)

\* what transfer throws for an error e raised inside it: Local.transfer has
\* no catch, S3.transfer's catch replaces every error
Surfaced(kind, e) == IF kind = "s3" THEN Err("File not found", 0) ELSE e

\* if (size <= this.transferChunkSize)
SingleShot(size, chunkSize) == size <= chunkSize

\* a source test that takes every path as present
SourceExists_Always(source) == TRUE

\* Local: this.exists(filePath); S3: getInfo(path), whose HEAD request throws
\* for a key the store does not hold
SourceExists(source) == source.exists

RECURSIVE transferLoop(_, _, _, _, _, _, _, _)
transferLoop(kind, content, f, counter, totalChunks, chunkSize, tf, log) ==
    IF counter >= totalChunks THEN TReturned(f, Logged(Calls(FALSE, 0, counter), log))
    ELSE LET start == counter * chunkSize
             r == ReadOf(kind, content, start, chunkSize)
             failed == tf = [at |-> counter + 1, fault |-> Fault("read", 0)]
         IN  IF failed \/ r.threw
             THEN TThrew(f, failed, counter + 1, Logged(Calls(FALSE, 0, counter), log),
                         Surfaced(kind, readError(kind)))
             ELSE LET u == Local_uploadData(f, r.data, counter + 1, totalChunks,
                                            IF tf.at = counter + 1 THEN tf.fault ELSE NoFault)
                      made == Append(log, UploadDataCall(r.data, counter + 1, totalChunks))
                  IN  IF u.threw
                      THEN TThrew(u.fs, u.hit, counter + 1,
                                  Logged(Calls(FALSE, 0, counter + 1), made),
                                  Surfaced(kind, uploadDataError(counter + 1, totalChunks)))
                      ELSE transferLoop(kind, content, u.fs, counter + 1, totalChunks,
                                        chunkSize, tf, made)

transfer(kind, source, f, chunkSize, tf) ==
    IF ~SourceExists(source)
    THEN TThrew(f, FALSE, 0, NoCalls, Surfaced(kind, Err("File Not Found", 0)))
    ELSE LET size == Len(source.data)
         IN  IF SingleShot(size, chunkSize)
             THEN LET r == ReadOf(kind, source.data, 0, Undefined)
                      failed == tf = [at |-> 1, fault |-> Fault("read", 0)]
                  IN  IF failed \/ r.threw
                      THEN TThrew(f, failed, 1, Calls(TRUE, 0, 0), Surfaced(kind, readError(kind)))
                      ELSE LET w == Local_write(f, r.data, IF tf.at = 1 THEN tf.fault ELSE NoFault)
                           IN  IF w.threw
                               THEN TThrew(w.fs, w.hit, 1, Calls(TRUE, 1, 0), writeError)
                               ELSE [TReturned(w.fs, Calls(TRUE, 1, 0)) EXCEPT !.ret = (w.ret = 1)]
             ELSE transferLoop(kind, source.data, f, 0, Ceil(size, chunkSize), chunkSize, tf, <<>>)

Local_transfer(source, f, chunkSize, tf) == transfer("local", source, f, chunkSize, tf)

S3_transfer(source, f, chunkSize, tf) == transfer("s3", source, f, chunkSize, tf)

(***************************************************************************)
(* The values a response body is decoded to                                *)
(***************************************************************************)
\* the values of the language the decoded body is made of; an object is the
\* sequence of its <<name, value>> entries
JsUndefined == [t |-> "undefined", v |-> <<>>]
JsString(s) == [t |-> "string", v |-> s]
JsArray(a) == [t |-> "array", v |-> a]
JsObject(entries) == [t |-> "object", v |-> entries]

\* x[k] of a value that is not undefined: undefined unless x is an object with that key
HasProperty(x, k) == x.t = "object" /\ \E i \in 1..Len(x.v) : x.v[i][1] = k
Property(x, k) ==
    IF HasProperty(x, k) THEN x.v[CHOOSE i \in 1..Len(x.v) : x.v[i][1] = k][2] ELSE JsUndefined

\* x || other
Truthy(x) == x.t \in {"array", "object"} \/ (x.t = "string" /\ x.v # <<>>)
OrElse(x, other) == IF Truthy(x) THEN x ELSE other

(***************************************************************************)
(* S3.uploadData and its metadata bag.  A key the bag does not hold is     *)
(* has... = FALSE; uploadId 0 is the missing (falsy) uploadId; parts is a  *)
(* function from the indices it holds to their ETags.                      *)
(***************************************************************************)
EmptyBag == [uploadId |-> 0, hasParts |-> FALSE, parts |-> <<>>, hasChunks |-> FALSE, chunks |-> 0]

Quote == "\""
ETags == {<<Quote, "a", Quote>>, <<"b">>}
UploadIds == {1, 2}

\* etag.replace(/^"|"$/g, ''): drops a leading and a trailing double quote
CleanETag(etag) ==
    LET h == IF Len(etag) > 0 /\ etag[1] = Quote THEN Tail(etag) ELSE etag
    IN  IF Len(h) > 0 /\ h[Len(h)] = Quote THEN SubSeq(h, 1, Len(h) - 1) ELSE h

\* parts[chunk] = etag
SetPart(parts, chunk, etag) ==
    [i \in DOMAIN parts \cup {chunk} |-> IF i = chunk THEN etag ELSE parts[i]]

\* what the store answers: which request fails (if any), the ETag of an
\* uploaded part, the UploadId of a created upload
Resps ==
    [fail : {"none", "complete"}, etag : ETags, id : UploadIds]
    \cup [fail : {"write", "create", "part"}, etag : {<<>>}, id : {0}]

\* the body of a CreateMultipartUpload response as xml2js.Parser (default
\* options) decodes it: the root element is the object's one key, and below
\* it every child element is an array of its occurrences
InitiateMultipartUploadResult(id) ==
    JsObject(<<<<"InitiateMultipartUploadResult",
                 JsObject(<<<<"UploadId", JsArray(<<JsString(id)>>)>>>>)>>>>)

\* createMultipartUpload: return response.body['UploadId'], the missing
\* uploadId (0) when the body has no such key
createMultipartUpload(resp) ==
    LET id == Property(InitiateMultipartUploadResult(resp.id), "UploadId")
    IN  IF id.t = "undefined" THEN 0 ELSE id.v

S3Returned(b, r, c, u, k) ==
    [bag |-> b, ret |-> r, threw |-> FALSE, created |-> c, uploaded |-> u, completed |-> k]
S3Threw(b, c, u, k) ==
    [bag |-> b, ret |-> 0, threw |-> TRUE, created |-> c, uploaded |-> u, completed |-> k]

\* uploadData that counts every uploaded part, also one whose index parts holds
S3_uploadData_NoGuard(b, chunk, chunks, resp) ==
    IF chunk = 1 /\ chunks = 1
    THEN IF resp.fail = "write" THEN S3Threw(b, FALSE, FALSE, FALSE)
         ELSE S3Returned(b, 1, FALSE, FALSE, FALSE)
    ELSE LET create == b.uploadId = 0
         IN  IF create /\ resp.fail = "create" THEN S3Threw(b, TRUE, FALSE, FALSE)
             ELSE LET b1 == [b EXCEPT !.uploadId = IF create THEN createMultipartUpload(resp) ELSE @,
                                      !.hasParts = TRUE, !.hasChunks = TRUE]
                  IN  IF resp.fail = "part" THEN S3Threw(b1, create, FALSE, FALSE)
                      ELSE LET b2 == [b1 EXCEPT !.chunks = @ + 1,
                                                !.parts = SetPart(@, chunk, CleanETag(resp.etag))]
                           IN  IF b2.chunks = chunks
                               THEN IF resp.fail = "complete" THEN S3Threw(b2, create, TRUE, TRUE)
                                    ELSE S3Returned(b2, b2.chunks, create, TRUE, TRUE)
                               ELSE S3Returned(b2, b2.chunks, create, TRUE, FALSE)

\* uploadData that completes the upload when it is given the last index
S3_uploadData_CompleteOnLastIndex(b, chunk, chunks, resp) ==
    IF chunk = 1 /\ chunks = 1
    THEN IF resp.fail = "write" THEN S3Threw(b, FALSE, FALSE, FALSE)
         ELSE S3Returned(b, 1, FALSE, FALSE, FALSE)
    ELSE LET create == b.uploadId = 0
         IN  IF create /\ resp.fail = "create" THEN S3Threw(b, TRUE, FALSE, FALSE)
             ELSE LET b1 == [b EXCEPT !.uploadId = IF create THEN createMultipartUpload(resp) ELSE @,
                                      !.hasParts = TRUE, !.hasChunks = TRUE]
                  IN  IF resp.fail = "part" THEN S3Threw(b1, create, FALSE, FALSE)
                      ELSE LET b2 == [b1 EXCEPT !.chunks = IF chunk \in DOMAIN b1.parts THEN @ ELSE @ + 1,
                                                !.parts = SetPart(@, chunk, CleanETag(resp.etag))]
                           IN  IF chunk = chunks
                               THEN IF resp.fail = "complete" THEN S3Threw(b2, create, TRUE, TRUE)
                                    ELSE S3Returned(b2, b2.chunks, create, TRUE, TRUE)
                               ELSE S3Returned(b2, b2.chunks, create, TRUE, FALSE)

S3_uploadData(b, chunk, chunks, resp) ==
    IF chunk = 1 /\ chunks = 1
    THEN IF resp.fail = "write" THEN S3Threw(b, FALSE, FALSE, FALSE)
         ELSE S3Returned(b, 1, FALSE, FALSE, FALSE)
    ELSE LET create == b.uploadId = 0
         IN  IF create /\ resp.fail = "create" THEN S3Threw(b, TRUE, FALSE, FALSE)
             ELSE LET b1 == [b EXCEPT !.uploadId = IF create THEN createMultipartUpload(resp) ELSE @,
                                      !.hasParts = TRUE, !.hasChunks = TRUE]
                  IN  IF resp.fail = "part" THEN S3Threw(b1, create, FALSE, FALSE)
                      ELSE LET b2 == [b1 EXCEPT !.chunks = IF chunk \in DOMAIN b1.parts THEN @ ELSE @ + 1,
                                                !.parts = SetPart(@, chunk, CleanETag(resp.etag))]
                           IN  IF b2.chunks = chunks
                               THEN IF resp.fail = "complete" THEN S3Threw(b2, create, TRUE, TRUE)
                                    ELSE S3Returned(b2, b2.chunks, create, TRUE, TRUE)
                               ELSE S3Returned(b2, b2.chunks, create, TRUE, FALSE)

NoS3Call == [chunk |-> 0, etag |-> <<>>, ret |-> 0, threw |-> FALSE,
             created |-> FALSE, uploaded |-> FALSE, completed |-> FALSE,
             wasIn |-> FALSE, inRange |-> TRUE]

(***************************************************************************)
(* Local.abort and S3.abort                                                *)
(***************************************************************************)
AbortFaults ==
    {Fault(p, 0) : p \in {"unlinkTarget", "deleteLog", "rmdir"}}
    \cup {Fault("deletePart", i) : i \in 1..MaxChunks}

AReturned(f, r, h) == [fs |-> f, ret |-> r, threw |-> FALSE, hit |-> h, err |-> NoError]
AThrew(f, h, e) == [fs |-> f, ret |-> FALSE, threw |-> TRUE, hit |-> h, err |-> e]

\* for (const file of await this.getFiles(tmp)) await this.delete(file, true):
\* getFiles gives [] for a missing directory, delete gives false for a file it
\* could not remove, and the loop goes on
deleteFiles(f, fault) ==
    IF ~f.tmp THEN f
    ELSE [f EXCEPT !.log = IF fault = Fault("deleteLog", 0) THEN @ ELSE Absent,
                   !.parts = [i \in 1..MaxChunks |->
                                 IF fault = Fault("deletePart", i) THEN @[i] ELSE Absent]]

\* an abort that leaves the target file where it is
Local_abort_KeepsTarget(f, fault) ==
    IF ~f.dir THEN AThrew(f, FALSE, Err("File doesn't exist", 0))
    ELSE LET d == deleteFiles(f, fault)
             left == d.log.exists \/ \E i \in 1..MaxChunks : d.parts[i].exists
         IN  IF ~d.tmp THEN AReturned(d, FALSE, FALSE)
             ELSE IF ~DirEmpty(d) THEN AReturned(d, FALSE, left)
             ELSE IF fault = Fault("rmdir", 0) THEN AReturned(d, FALSE, TRUE)
             ELSE AReturned([d EXCEPT !.tmp = FALSE], TRUE, FALSE)

Local_abort(f, fault) ==
    IF f.target.exists /\ fault = Fault("unlinkTarget", 0)
    THEN AThrew(f, TRUE, Err("unlink failed", 0))
    ELSE LET g == [f EXCEPT !.target = Absent]
         IN  IF ~g.dir THEN AThrew(g, FALSE, Err("File doesn't exist", 0))
             ELSE LET d == deleteFiles(g, fault)
                      left == d.log.exists \/ \E i \in 1..MaxChunks : d.parts[i].exists
                  IN  IF ~d.tmp THEN AReturned(d, FALSE, FALSE)
                      ELSE IF ~DirEmpty(d) THEN AReturned(d, FALSE, left)
                      ELSE IF fault = Fault("rmdir", 0) THEN AReturned(d, FALSE, TRUE)
                      ELSE AReturned([d EXCEPT !.tmp = FALSE], TRUE, FALSE)

\* the statuses the store answers an AbortMultipartUpload with: 204 when it
\* removed the upload, 404 (NoSuchUpload) when it holds no such upload
AbortStatuses == {204, 404}

\* response.ok
Ok(status) == status >= 200 /\ status <= 299

\* S3.abort: await this.call(DELETE, uri, '', {uploadId}); return true.  call
\* throws "HTTP <status>: <body>" for a response that is not ok.
S3_abort(status) ==
    IF Ok(status) THEN [ret |-> TRUE, threw |-> FALSE, err |-> NoError]
    ELSE [ret |-> FALSE, threw |-> TRUE, err |-> Err("HTTP", 0)]

NoAbort == [op |-> "none", at |-> 0, ret |-> FALSE, threw |-> FALSE, hit |-> FALSE,
            hadDir |-> FALSE, hadTmp |-> FALSE, hadTarget |-> FALSE, hadFiles |-> FALSE,
            status |-> 0]

(***************************************************************************)
(* Local.move, and Device.move as the S3 devices inherit it.  files maps   *)
(* each path of the device to the file or object it holds; calls counts    *)
(* the filesystem calls (Local) or backend requests (S3) the move issued.  *)
(***************************************************************************)
Paths == {"a", "b"}

NoStore == [kind |-> "none", files |-> [p \in Paths |-> Absent]]
NoMove == [op |-> "none", source |-> "a", target |-> "a", ret |-> FALSE, threw |-> FALSE,
           hit |-> FALSE, calls |-> 0, was |-> Absent, err |-> NoError]

MReturned(fl, r, h, q) == [files |-> fl, ret |-> r, threw |-> FALSE, hit |-> h, calls |-> q, err |-> NoError]
MThrew(fl, h, q, e) == [files |-> fl, ret |-> FALSE, threw |-> TRUE, hit |-> h, calls |-> q, err |-> e]

\* a path test that takes two equal paths for different ones
SamePath_Never(source, target) == FALSE

\* source === target
SamePath(source, target) == source = target

\* Local.move: createDirectory(dirname(target)), then fs.rename(source, target);
\* rename rejects for a missing source, and the catch answers false
Local_move(files, source, target, fault) ==
    IF SamePath(source, target) THEN MReturned(files, FALSE, FALSE, 0)
    ELSE IF fault = Fault("rename", 0) THEN MReturned(files, FALSE, TRUE, 2)
    ELSE IF ~files[source].exists THEN MReturned(files, FALSE, FALSE, 2)
    ELSE MReturned([files EXCEPT ![target] = writeFile(@, files[source].data),
                                 ![source] = Absent], TRUE, FALSE, 2)

\* the object an S3 device holds at the destination after the chunked loop of
\* transfer: the parts uploaded for the ranges read, completed in index order
RECURSIVE S3_chunks(_, _, _, _)
S3_chunks(content, counter, totalChunks, chunkSize) ==
    IF counter >= totalChunks THEN ReadResult(<<>>)
    ELSE LET r == S3_read(content, counter * chunkSize, chunkSize)
             rest == S3_chunks(content, counter + 1, totalChunks, chunkSize)
         IN  IF r.threw \/ rest.threw THEN ReadThrew ELSE ReadResult(r.data \o rest.data)

\* S3.transfer(source, target, this): the HEAD request of getInfo, then the
\* reads (GET) and the write (PUT) or the multipart requests of uploadData;
\* fail: the request of the store that is answered with an error status
S3_transferSelf(files, source, target, chunkSize, fail) ==
    IF ~SourceExists(files[source]) \/ fail = "head"
    THEN MThrew(files, fail = "head", 1, Surfaced("s3", Err("HTTP", 0)))
    ELSE LET content == files[source].data
             size == Len(content)
             totalChunks == Ceil(size, chunkSize)
             r == IF SingleShot(size, chunkSize) THEN S3_read(content, 0, Undefined)
                  ELSE S3_chunks(content, 0, totalChunks, chunkSize)
         IN  IF r.threw THEN MThrew(files, FALSE, 2, Surfaced("s3", readError("s3")))
             ELSE IF fail = "put" THEN MThrew(files, TRUE, 3, Err("HTTP", 0))
             ELSE MReturned([files EXCEPT ![target] = File(r.data)], TRUE, FALSE,
                            IF SingleShot(size, chunkSize) THEN 3 ELSE 2 * totalChunks + 3)

\* Device.move: transfer(source, target, this), then delete(source)
Device_move(files, source, target, chunkSize, fail) ==
    IF SamePath(source, target) THEN MReturned(files, FALSE, FALSE, 0)
    ELSE LET t == S3_transferSelf(files, source, target, chunkSize, fail)
         IN  IF t.threw THEN t
             ELSE IF t.ret
                  THEN IF fail = "delete" THEN MThrew(t.files, TRUE, t.calls + 1, Err("HTTP", 0))
                       ELSE MReturned([t.files EXCEPT ![source] = Absent], TRUE, FALSE, t.calls + 1)
                  ELSE MReturned(t.files, FALSE, FALSE, t.calls)

(***************************************************************************)
(* The requests of an S3 device.  Every operation writes the fields of     *)
(* this.headers / this.amzHeaders it needs and then awaits this.call;      *)
(* call starts with `await import('crypto')`, and only after that await    *)
(* does it read the fields, sign and hand the request to fetch.            *)
(***************************************************************************)
Callers == {1, 2}

\* a header the object does not hold, or holds as '', is not sent
NoValue == <<>>
NoHeaders == [contentType |-> NoValue, md5 |-> NoValue, sha256 |-> NoValue, acl |-> NoValue]

\* the digests of a body, as values that differ for different bodies
MD5(data) == <<"md5", data>>
SHA256(data) == <<"sha256", data>>

\* getSignatureV4: a function of the method, the uri, the query parameters
\* and of every header this.headers and this.amzHeaders hold when it runs
Signature(method, uri, parameters, h) ==
    [method |-> method, uri |-> uri, parameters |-> parameters, headers |-> h]

ContentTypes == {"text/plain", "image/png"}

\* the operations a caller may issue: write(path, data, contentType) and
\* uploadPart(data, path, contentType, chunk, uploadId)
Ops(path) ==
    [kind : {"write"}, path : {path}, data : Payloads, contentType : ContentTypes,
     parameters : {<<>>}]
    \cup [kind : {"uploadPart"}, path : {path}, data : Payloads, contentType : ContentTypes,
          parameters : {<<"partNumber=1", "uploadId=1">>}]

NoOp == [kind |-> "none", path |-> "", data |-> <<>>, contentType |-> "", parameters |-> <<>>]
Idle == [pc |-> "idle", op |-> NoOp]
NoRequest == [sent |-> FALSE, op |-> NoOp, body |-> <<>>, headers |-> NoHeaders,
              authorization |-> Signature("", "", <<>>, NoHeaders)]

\* the fields write and uploadPart assign before they call this.call
Prepared(h, op) ==
    [h EXCEPT !.contentType = op.contentType,
              !.md5 = MD5(op.data),
              !.sha256 = SHA256(op.data),
              !.acl = IF op.kind = "write" THEN <<"private">> ELSE NoValue]

\* call, after its first await: x-amz-content-sha256 is filled in when it is
\* not set, then the request takes the headers the instance holds now
Completed(h, data) == [h EXCEPT !.sha256 = IF @ = NoValue THEN SHA256(data) ELSE @]

RequestOf(h, op) ==
    [sent |-> TRUE, op |-> op, body |-> op.data, headers |-> h,
     authorization |-> Signature("PUT", op.path, op.parameters, h)]

(***************************************************************************)
(* Local.uploadData step by step: every awaited filesystem call is a step, *)
(* so that two calls on one target can interleave at their await points.   *)
(***************************************************************************)
\* a test that sends the call into joinChunks one chunk early
ChunksComplete_OneShort(chunks, chunksReceived) == chunks = chunksReceived + 1

\* if (chunks === chunksReceived)
ChunksComplete(chunks, chunksReceived) == chunks = chunksReceived

\* one call: where it stands (pc), its arguments, its locals chunksReceived,
\* i and data of joinChunks; joined: it entered joinChunks; early: it entered
\* while a part of 1..chunks was not on disk; missing: its join found no part i
NotCalled == [pc |-> "idle", chunk |-> 0, data |-> <<>>, received |-> 0, i |-> 0, buf |-> <<>>,
              joined |-> FALSE, early |-> FALSE, missing |-> FALSE]
NoRace == [calls |-> [c \in Callers |-> NotCalled], overlapped |-> FALSE]

Running(call) == call.pc \notin {"idle", "done", "threw"}

\* throw new Error(`Failed to write chunk ${chunk}`)
Fail(call) == [call EXCEPT !.pc = "threw"]

(***************************************************************************)
(* A chunked upload across process restarts.  A method is called on a      *)
(* Local instance (this) with the caller's metadata bag; it answers with   *)
(* its result and the bag as it leaves it.                                 *)
(***************************************************************************)
\* new Local(root)
Roots == {"", "temp"}
Local(root, id) == [root |-> root, id |-> id]

\* the bags a caller may hold: none of its own, or one an earlier S3 upload filled
CallerBags == {EmptyBag, [EmptyBag EXCEPT !.hasChunks = TRUE, !.chunks = 1]}

\* an uploadData that counts the received chunks in the metadata bag
Local_uploadDataOn_BagCount(this, metadata, f, data, chunk, chunks) ==
    LET r == Local_uploadData(f, data, chunk, chunks, NoFault)
    IN  [res |-> [r EXCEPT !.ret = IF chunks = 1 \/ r.threw THEN @ ELSE metadata.chunks + 1],
         metadata |-> [metadata EXCEPT !.hasChunks = TRUE, !.chunks = @ + 1]]

\* this.uploadData(data, filePath, contentType, chunk, chunks, metadata): the
\* body reads no field of this and never touches metadata
Local_uploadDataOn(this, metadata, f, data, chunk, chunks) ==
    [res |-> Local_uploadData(f, data, chunk, chunks, NoFault), metadata |-> metadata]

\* this.upload(source, filePath, chunk, chunks, metadata)
Local_uploadOn(this, metadata, f, data, chunk, chunks) ==
    [res |-> Local_upload(f, data, chunk, chunks, NoFault), metadata |-> metadata]

NoInst == Local("", 0)
NoRef == [fs |-> [dir |-> TRUE, target |-> Absent, tmp |-> FALSE, log |-> Absent, parts |-> NoParts],
          bag |-> EmptyBag]
NoRestartCall == [op |-> "none", chunk |-> 0, ret |-> 0, threw |-> FALSE,
                  refRet |-> 0, refThrew |-> FALSE]

(***************************************************************************)
(* Device.getAbsolutePath.  A string is the sequence of its characters.    *)
(***************************************************************************)
Slash == "/"
Backslash == "\\"
Dot == <<".">>
DotDot == <<".", ".">>

\* path.replace(/[/\\]/g, '/')
Normalize(path) ==
    [i \in 1..Len(path) |-> IF path[i] \in {Slash, Backslash} THEN Slash ELSE path[i]]

\* s.split('/'), from position i on with cur collected so far: '' gives ['']
RECURSIVE SplitFrom(_, _, _)
SplitFrom(s, i, cur) ==
    IF i > Len(s) THEN <<cur>>
    ELSE IF s[i] = Slash THEN <<cur>> \o SplitFrom(s, i + 1, <<>>)
    ELSE SplitFrom(s, i + 1, Append(cur, s[i]))

Split(s) == SplitFrom(s, 1, <<>>)

\* .filter(part => part.length > 0)
NonEmpty(parts) == SelectSeq(parts, LAMBDA part : Len(part) > 0)

\* absolutes.pop(): nothing happens on an empty array
Pop(absolutes) ==
    IF absolutes = <<>> THEN absolutes ELSE SubSeq(absolutes, 1, Len(absolutes) - 1)

\* the loop over parts
RECURSIVE Absolutes(_, _)
Absolutes(parts, absolutes) ==
    IF parts = <<>> THEN absolutes
    ELSE LET part == Head(parts)
         IN  IF part = Dot THEN Absolutes(Tail(parts), absolutes)
             ELSE IF part = DotDot THEN Absolutes(Tail(parts), Pop(absolutes))
             ELSE Absolutes(Tail(parts), Append(absolutes, part))

\* absolutes.join('/')
RECURSIVE Join(_)
Join(parts) ==
    IF parts = <<>> THEN <<>>
    ELSE IF Len(parts) = 1 THEN parts[1]
    ELSE parts[1] \o <<Slash>> \o Join(Tail(parts))

\* a getAbsolutePath that splits before it replaces the backslashes
getAbsolutePath_SplitFirst(path) ==
    Normalize(<<Slash>> \o Join(Absolutes(NonEmpty(Split(path)), <<>>)))

\* a getAbsolutePath that keeps the empty parts
getAbsolutePath_KeepEmpty(path) ==
    <<Slash>> \o Join(Absolutes(Split(Normalize(path)), <<>>))

getAbsolutePath(path) ==
    <<Slash>> \o Join(Absolutes(NonEmpty(Split(Normalize(path))), <<>>))

\* the characters paths are made of, and the paths of the tests
PathChars == {Slash, Backslash, ".", "a"}
PathsUpTo(k) == UNION {[1..m -> PathChars] : m \in 0..k}
TestPaths ==
    {<<"/", "a", "/", ".", ".">>,
     <<"/", ".", ".", "/", ".", ".">>,
     <<"/", "a", "/", "b", "/", ".", ".", "/", "c">>,
     <<"/", "/", "a", "/", "/", "b">>}

NoResolved == [pc |-> "none", path |-> <<>>, once |-> <<>>, twice |-> <<>>]

(***************************************************************************)
(* S3.getSignatureV4.  Strings are sequences of characters; an object is   *)
(* the sequence of its <<key, value>> entries in insertion order.          *)
(***************************************************************************)
\* the UTF-16 code units of the characters used, by which sort() orders strings
CodeUnit ==
    (" " :> 32 @@ "%" :> 37 @@ "&" :> 38 @@ "," :> 44 @@ "-" :> 45 @@ "/" :> 47
     @@ "0" :> 48 @@ "1" :> 49 @@ "2" :> 50 @@ "3" :> 51 @@ "4" :> 52 @@ "5" :> 53
     @@ "6" :> 54 @@ "7" :> 55 @@ "8" :> 56 @@ "9" :> 57 @@ ":" :> 58 @@ ";" :> 59
     @@ "=" :> 61 @@ "?" :> 63 @@ "A" :> 65 @@ "C" :> 67 @@ "E" :> 69 @@ "F" :> 70
     @@ "G" :> 71 @@ "H" :> 72 @@ "I" :> 73 @@ "M" :> 77 @@ "N" :> 78 @@ "P" :> 80
     @@ "S" :> 83 @@ "T" :> 84 @@ "U" :> 85 @@ "W" :> 87 @@ "X" :> 88 @@ "Z" :> 90
     @@ "_" :> 95 @@ "a" :> 97 @@ "b" :> 98 @@ "c" :> 99 @@ "d" :> 100 @@ "e" :> 101
     @@ "f" :> 102 @@ "g" :> 103 @@ "h" :> 104 @@ "i" :> 105 @@ "k" :> 107 @@ "l" :> 108
     @@ "m" :> 109 @@ "n" :> 110 @@ "o" :> 111 @@ "p" :> 112 @@ "q" :> 113 @@ "r" :> 114
     @@ "s" :> 115 @@ "t" :> 116 @@ "u" :> 117 @@ "v" :> 118 @@ "w" :> 119 @@ "x" :> 120
     @@ "y" :> 121 @@ "z" :> 122)

\* toLowerCase
LowerCase ==
    ("A" :> "a" @@ "C" :> "c" @@ "E" :> "e" @@ "F" :> "f" @@ "G" :> "g" @@ "H" :> "h"
     @@ "I" :> "i" @@ "M" :> "m" @@ "N" :> "n" @@ "P" :> "p" @@ "S" :> "s" @@ "T" :> "t"
     @@ "U" :> "u" @@ "W" :> "w" @@ "X" :> "x" @@ "Z" :> "z")

ToLowerCase(s) == [i \in 1..Len(s) |-> IF s[i] \in DOMAIN LowerCase THEN LowerCase[s[i]] ELSE s[i]]

\* the order of Array.prototype.sort() without a compare function
RECURSIVE Before(_, _)
Before(s, t) ==
    IF s = <<>> THEN t # <<>>
    ELSE IF t = <<>> THEN FALSE
    ELSE IF CodeUnit[s[1]] # CodeUnit[t[1]] THEN CodeUnit[s[1]] < CodeUnit[t[1]]
    ELSE Before(Tail(s), Tail(t))

\* a sort that does not tell upper and lower case apart
RECURSIVE Sorted_IgnoringCase(_)
Sorted_IgnoringCase(keys) ==
    IF keys = {} THEN <<>>
    ELSE LET first == CHOOSE k \in keys :
                          \A j \in keys : ~Before(ToLowerCase(j), ToLowerCase(k))
         IN  <<first>> \o Sorted_IgnoringCase(keys \ {first})

RECURSIVE Sorted(_)
Sorted(keys) ==
    IF keys = {} THEN <<>>
    ELSE LET first == CHOOSE k \in keys : \A j \in keys \ {k} : Before(k, j)
         IN  <<first>> \o Sorted(keys \ {first})

\* v.trim()
RECURSIVE TrimStart(_)
TrimStart(v) == IF v # <<>> /\ Head(v) = " " THEN TrimStart(Tail(v)) ELSE v
RECURSIVE TrimEnd(_)
TrimEnd(v) == IF v # <<>> /\ v[Len(v)] = " " THEN TrimEnd(SubSeq(v, 1, Len(v) - 1)) ELSE v
Trim(v) == TrimEnd(TrimStart(v))

\* Object.keys(o), o[k], o[k] = v
Keys(o) == {o[i][1] : i \in 1..Len(o)}
KeyList(o) == [i \in 1..Len(o) |-> o[i][1]]
Get(o, k) == o[CHOOSE i \in 1..Len(o) : o[i][1] = k][2]
Put(o, k, v) ==
    IF k \in Keys(o) THEN [i \in 1..Len(o) |-> IF o[i][1] = k THEN <<k, v>> ELSE o[i]]
    ELSE Append(o, <<k, v>>)

\* for (const [k, v] of Object.entries(o)) combinedHeaders[k.toLowerCase()] = v.trim()
RECURSIVE Combine(_, _)
Combine(combinedHeaders, entries) ==
    IF entries = <<>> THEN combinedHeaders
    ELSE Combine(Put(combinedHeaders, ToLowerCase(Head(entries)[1]), Trim(Head(entries)[2])),
                 Tail(entries))

\* parts.join(sep)
RECURSIVE JoinBy(_, _)
JoinBy(parts, sep) ==
    IF parts = <<>> THEN <<>>
    ELSE IF Len(parts) = 1 THEN parts[1]
    ELSE parts[1] \o sep \o JoinBy(Tail(parts), sep)

\* encodeURIComponent: letters, digits and - are kept, other characters are escaped
Escapes == (" " :> <<"%", "2", "0">> @@ "/" :> <<"%", "2", "F">> @@ "?" :> <<"%", "3", "F">>)
RECURSIVE encodeURIComponent(_)
encodeURIComponent(s) ==
    IF s = <<>> THEN <<>>
    ELSE (IF Head(s) \in DOMAIN Escapes THEN Escapes[Head(s)] ELSE <<Head(s)>>)
         \o encodeURIComponent(Tail(s))

\* uri.split('?')[0]
BeforeQuery(uri) ==
    IF \E i \in 1..Len(uri) : uri[i] = "?"
    THEN SubSeq(uri, 1, (CHOOSE i \in 1..Len(uri) : uri[i] = "?" /\ \A j \in 1..(i - 1) : uri[j] # "?") - 1)
    ELSE uri

\* s.substring(0, k)
Substring(s, k) == SubSeq(s, 1, IF Len(s) < k THEN Len(s) ELSE k)

HexDigits == <<"0", "1", "2", "3", "4", "5", "6", "7", "8", "9", "a", "b", "c", "d", "e", "f">>
\* digest('hex') of a SHA-256 / HMAC-SHA-256: 64 hexadecimal digits that
\* depend on the input
HexDigest(input) == [i \in 1..64 |-> HexDigits[((Len(input) * i) % 16) + 1]]
\* digest(): the raw bytes, as a value that differs for different inputs
RawDigest(data, key) == <<"hmac", data, key>>

X_AMZ_DATE == <<"x", "-", "a", "m", "z", "-", "d", "a", "t", "e">>
X_AMZ_CONTENT_SHA256 == <<"x", "-", "a", "m", "z", "-", "c", "o", "n", "t", "e", "n", "t", "-", "s", "h", "a", "2", "5", "6">>
ALGORITHM == <<"A", "W", "S", "4", "-", "H", "M", "A", "C", "-", "S", "H", "A", "2", "5", "6">>
SERVICE == <<"s", "3">>
AWS4_REQUEST == <<"a", "w", "s", "4", "_", "r", "e", "q", "u", "e", "s", "t">>

SigThrew == [threw |-> TRUE, headerLines |-> <<>>, signedHeaders |-> <<>>, sortedParams |-> <<>>,
             queryString |-> <<>>, credentialScope |-> <<>>, signature |-> <<>>,
             authorization |-> <<>>]

\* the body of getSignatureV4 after amzDateStamp was taken
SignatureV4(this, method, uri, parameters, amzDateStamp) ==
    LET combinedHeaders == Combine(Combine(<<>>, this.headers), this.amzHeaders)
        sortedHeaders == Sorted(Keys(combinedHeaders))
        headerLines == [i \in 1..Len(sortedHeaders) |->
                           sortedHeaders[i] \o <<":">> \o Get(combinedHeaders, sortedHeaders[i])]
        sortedParams == Sorted(Keys(parameters))
        queryString == JoinBy([i \in 1..Len(sortedParams) |->
                                  encodeURIComponent(sortedParams[i]) \o <<"=">>
                                  \o encodeURIComponent(Get(parameters, sortedParams[i]))], <<"&">>)
        contentSha == IF X_AMZ_CONTENT_SHA256 \in Keys(this.amzHeaders)
                      THEN Get(this.amzHeaders, X_AMZ_CONTENT_SHA256) ELSE <<>>
        canonicalRequest == JoinBy(<<method, BeforeQuery(uri), queryString>> \o headerLines
                                   \o <<<<>>, JoinBy(sortedHeaders, <<";">>), contentSha>>, <<"\n">>)
        credentialScope == JoinBy(<<amzDateStamp, this.region, SERVICE, AWS4_REQUEST>>, <<"/">>)
        stringToSign == JoinBy(<<ALGORITHM, Get(this.amzHeaders, X_AMZ_DATE), credentialScope,
                                 HexDigest(canonicalRequest)>>, <<"\n">>)
        kDate == RawDigest(amzDateStamp, <<"A", "W", "S", "4">> \o this.secretKey)
        kRegion == RawDigest(this.region, kDate)
        kService == RawDigest(SERVICE, kRegion)
        kSigning == RawDigest(AWS4_REQUEST, kService)
        signature == HexDigest(stringToSign \o kSigning)
    IN  [threw |-> FALSE, headerLines |-> headerLines, signedHeaders |-> sortedHeaders,
         sortedParams |-> sortedParams, queryString |-> queryString,
         credentialScope |-> credentialScope, signature |-> signature,
         authorization |-> ALGORITHM \o <<" ", "C", "r", "e", "d", "e", "n", "t", "i", "a", "l", "=">> \o this.accessKey \o <<"/">> \o credentialScope
                           \o <<",", "S", "i", "g", "n", "e", "d", "H", "e", "a", "d", "e", "r", "s", "=">> \o JoinBy(sortedHeaders, <<";">>)
                           \o <<",", "S", "i", "g", "n", "a", "t", "u", "r", "e", "=">> \o signature]

\* a getSignatureV4 that puts the whole x-amz-date into the credential scope
getSignatureV4_WholeDate(this, method, uri, parameters) ==
    IF X_AMZ_DATE \notin Keys(this.amzHeaders) THEN SigThrew
    ELSE SignatureV4(this, method, uri, parameters, Get(this.amzHeaders, X_AMZ_DATE))

\* this.amzHeaders['x-amz-date'].substring(0, 8) throws a TypeError when the
\* header is not set
getSignatureV4(this, method, uri, parameters) ==
    IF X_AMZ_DATE \notin Keys(this.amzHeaders) THEN SigThrew
    ELSE SignatureV4(this, method, uri, parameters, Substring(Get(this.amzHeaders, X_AMZ_DATE), 8))

\* objects with up to k entries, keys from ks (each once) and values from vs
RECURSIVE Objects(_, _, _)
Objects(ks, vs, k) ==
    IF k = 0 THEN {<<>>}
    ELSE LET shorter == Objects(ks, vs, k - 1)
         IN  shorter \cup {Append(o, <<key, v>>) : o \in shorter, key \in ks, v \in vs}

Distinct(o) == Cardinality(Keys(o)) = Len(o)

HeaderKeys == {<<"h", "o", "s", "t">>, <<"H", "o", "s", "t">>, <<"d", "a", "t", "e">>}
HeaderValues == {<<"v">>, <<" ", "v", " ">>, <<>>}
AmzDate == <<X_AMZ_DATE, <<"2", "0", "2", "3", "0", "1", "0", "1", "T", "0", "0", "0", "0", "0", "0", "Z">>>>
AmzSha == <<X_AMZ_CONTENT_SHA256, <<"e", "3", "b", "0">>>>
AmzAcl == <<<<"x", "-", "a", "m", "z", "-", "a", "c", "l">>, <<"p", "r", "i", "v", "a", "t", "e">>>>
AmzObjects == {<<>>, <<AmzSha>>, <<AmzDate, AmzSha>>, <<AmzSha, AmzDate>>, <<AmzAcl, AmzSha, AmzDate>>}
ParameterKeys == {<<"u", "p", "l", "o", "a", "d", "I", "d">>, <<"p", "a", "r", "t", "N", "u", "m", "b", "e", "r">>, <<"X", "-", "A", "m", "z", "-", "E", "x", "p", "i", "r", "e", "s">>}
ParameterValues == {<<"1">>}

Signers ==
    {[headers |-> h, amzHeaders |-> a, accessKey |-> <<"k", "e", "y">>, secretKey |-> <<"s", "e", "c", "r", "e", "t">>, region |-> <<"u", "s", "-", "e", "a", "s", "t", "-", "1">>] :
        h \in {o \in Objects(HeaderKeys, HeaderValues, MaxEntries) : Distinct(o)}, a \in AmzObjects}

NoSig == [pc |-> "none", this |-> [headers |-> <<>>, amzHeaders |-> <<>>, accessKey |-> <<>>,
                                   secretKey |-> <<>>, region |-> <<>>],
          method |-> <<>>, uri |-> <<>>, parameters |-> <<>>, out |-> SigThrew]

(***************************************************************************)
(* Local.delete.  What is at a path: nothing, a file, or a directory with  *)
(* its entries; removable = FALSE when unlink / rmdir of it is refused.    *)
(***************************************************************************)
Nothing == [kind |-> "absent", entries |-> <<>>, removable |-> TRUE]
AFile(removable) == [kind |-> "file", entries |-> <<>>, removable |-> removable]
ADirectory(entries, removable) == [kind |-> "dir", entries |-> entries, removable |-> removable]

DReturned(node, ret) == [node |-> node, ret |-> ret]

RECURSIVE Local_delete(_, _)
Local_delete(node, recursive) ==
    IF node.kind = "absent" THEN DReturned(node, FALSE)
    ELSE IF node.kind = "dir" /\ recursive
    THEN LET left == SelectSeq([k \in 1..Len(node.entries) |->
                                   Local_delete(node.entries[k], TRUE).node],
                               LAMBDA e : e.kind # "absent")
         IN  IF left = <<>> /\ node.removable THEN DReturned(Nothing, TRUE)
             ELSE DReturned([node EXCEPT !.entries = left], FALSE)
    ELSE IF node.kind = "file"
    THEN IF node.removable THEN DReturned(Nothing, TRUE) ELSE DReturned(node, FALSE)
    ELSE DReturned(node, TRUE)

\* up to k entries, each one of nodes
Listings(nodes, k) == UNION {[1..m -> nodes] : m \in 0..k}
Files == {AFile(r) : r \in BOOLEAN}
Shallow == Files \cup {ADirectory(e, r) : e \in Listings(Files, MaxEntries), r \in BOOLEAN}
Trees == Shallow \cup {ADirectory(e, r) : e \in Listings(Shallow, MaxEntries), r \in BOOLEAN}

NoDelete == [pc |-> "none", node |-> Nothing, was |-> Nothing, recursive |-> FALSE, ret |-> FALSE]

(***************************************************************************)
(* The requests of the S3 devices, as S3.call / MinIO.call issue them      *)
(***************************************************************************)
\* `${x}`: an array is its elements joined by ','
RECURSIVE ToText(_)
ToText(x) ==
    IF x.t = "string" THEN x.v
    ELSE IF x.t = "array" THEN JoinBy([i \in 1..Len(x.v) |-> ToText(x.v[i])], <<",">>)
    ELSE IF x.t = "undefined" THEN <<"u", "n", "d", "e", "f", "i", "n", "e", "d">>
    ELSE <<"[", "o", "b", "j", "e", "c", "t", " ", "O", "b", "j", "e", "c", "t", "]">>

DigitChars == <<"0", "1", "2", "3", "4", "5", "6", "7", "8", "9">>
IsDigit(c) == \E d \in 1..Len(DigitChars) : DigitChars[d] = c
DigitOf(c) == (CHOOSE d \in 1..Len(DigitChars) : DigitChars[d] = c) - 1

\* parseInt of a text: the number its leading digits spell, NaN when it has none
RECURSIVE LeadingNumber(_, _)
LeadingNumber(s, acc) ==
    IF s # <<>> /\ IsDigit(Head(s)) THEN LeadingNumber(Tail(s), 10 * acc + DigitOf(Head(s))) ELSE acc
parseInt(s) ==
    IF s # <<>> /\ IsDigit(Head(s)) THEN [nan |-> FALSE, n |-> LeadingNumber(s, 0)]
    ELSE [nan |-> TRUE, n |-> 0]

\* s.replace(/pat/g, by)
RECURSIVE ReplaceAll(_, _, _)
ReplaceAll(s, pat, by) ==
    IF Len(s) < Len(pat) THEN s
    ELSE IF SubSeq(s, 1, Len(pat)) = pat
    THEN by \o ReplaceAll(SubSeq(s, Len(pat) + 1, Len(s)), pat, by)
    ELSE <<Head(s)>> \o ReplaceAll(Tail(s), pat, by)

\* s.split(sep), from position i on with cur collected so far: '' gives ['']
RECURSIVE SplitBy(_, _, _, _)
SplitBy(s, sep, i, cur) ==
    IF i > Len(s) THEN <<cur>>
    ELSE IF s[i] = sep THEN <<cur>> \o SplitBy(s, sep, i + 1, <<>>)
    ELSE SplitBy(s, sep, i + 1, Append(cur, s[i]))

\* a device: S3, MinIO (an S3 with its own call) or Local, with its root, its
\* bucket, the endpoint it was made for and its headers['host']
Device(kind, root) ==
    [kind |-> kind, root |-> root, bucket |-> <<"b">>, endpoint |-> <<"s", "3">>,
     host |-> <<"b", ".", "s", "3">>]

\* new MinIO(root, accessKey, secretKey, bucket, endpoint):
\* this.headers['host'] = `${bucket}.${cleanEndpoint}`
MinIO(root, endpoint) ==
    [Device("minio", root) EXCEPT !.endpoint = endpoint, !.host = <<"b", ".">> \o endpoint]
Buckets == {"s3", "minio"}

\* what fetch gives: it rejects, or it resolves to a response
Rejected == [kind |-> "rejected", status |-> 0, text |-> ""]
Response(status, text) == [kind |-> "response", status |-> status, text |-> text]
Outcomes == {Rejected, Response(200, ""), Response(204, ""),
             Response(403, "AccessDenied"), Response(404, "NoSuchKey"), Response(500, "")}

NoBody == [kind |-> "none", keys |-> <<>>]
DataBody == [kind |-> "data", keys |-> <<>>]
\* <Delete><Object><Key>k</Key></Object>...<Quiet>true</Quiet></Delete>
DeleteBody(keys) == [kind |-> "delete quiet", keys |-> keys]

NoFailure == [kind |-> "none", status |-> 0, text |-> ""]
FetchError == [kind |-> "fetch rejected", status |-> 0, text |-> ""]
\* new Error(`HTTP ${response.status}: ${errorBody}`)
HttpError(status, text) == [kind |-> "HTTP", status |-> status, text |-> text]
TypeError == [kind |-> "TypeError", status |-> 0, text |-> ""]

\* host: the host header the request carries
Request(method, uri, parameters, body, host) ==
    [method |-> method, uri |-> uri, parameters |-> parameters, body |-> body, host |-> host]

\* this: the device as the call leaves it
Fetch(request, threw, err, attempts, this) ==
    [request |-> request, threw |-> threw, err |-> err, attempts |-> attempts, this |-> this]

\* MinIO.call: originalHost.split('.')[0] and
\* originalHost.split('.').slice(1).join('.')
BucketName(originalHost) == Head(SplitBy(originalHost, ".", 1, <<>>))
Endpoint(originalHost) == JoinBy(Tail(SplitBy(originalHost, ".", 1, <<>>)), <<".">>)

\* the request call hands to fetch: MinIO.call puts the bucket name into the
\* path and leaves the endpoint as the host
Fetched(this, method, uri, data, parameters) ==
    Request(method,
            IF this.kind = "minio" THEN <<Slash>> \o BucketName(this.host) \o getAbsolutePath(uri)
            ELSE getAbsolutePath(uri),
            parameters,
            IF method \in {"PUT", "POST"} THEN data ELSE NoBody,
            IF this.kind = "minio" THEN Endpoint(this.host) ELSE this.host)

\* the device while fetch is awaited: MinIO.call has set headers['host'] to
\* the endpoint
Awaiting(this) ==
    IF this.kind = "minio" THEN [this EXCEPT !.host = Endpoint(this.host)] ELSE this

\* a call that tries a failed request S3.retryAttempts times
S3_call_Retrying(this, method, uri, data, parameters, outcome) ==
    LET request == Fetched(this, method, uri, data, parameters)
    IN  IF outcome.kind = "rejected" THEN Fetch(request, TRUE, FetchError, 3, Awaiting(this))
        ELSE IF ~Ok(outcome.status)
        THEN Fetch(request, TRUE, HttpError(outcome.status, outcome.text), 3, this)
        ELSE Fetch(request, FALSE, NoFailure, 1, this)

\* S3.call and MinIO.call: one fetch; its rejection passes through, a
\* response that is not ok is thrown with its status and body.  MinIO.call
\* puts headers['host'] back once fetch has resolved.
S3_call(this, method, uri, data, parameters, outcome) ==
    LET request == Fetched(this, method, uri, data, parameters)
    IN  IF outcome.kind = "rejected" THEN Fetch(request, TRUE, FetchError, 1, Awaiting(this))
        ELSE IF ~Ok(outcome.status)
        THEN Fetch(request, TRUE, HttpError(outcome.status, outcome.text), 1, this)
        ELSE Fetch(request, FALSE, NoFailure, 1, this)

\* path !== '' ? `/${encodeURIComponent(path).replace(/%2F/g, '/')}` : '/',
\* with .replace(/%3F/g, '?') besides in write and uploadPart
ObjectUri(path, keepQuery) ==
    IF path = <<>> THEN <<Slash>>
    ELSE LET slashes == ReplaceAll(encodeURIComponent(path), Escapes["/"], <<Slash>>)
         IN  <<Slash>> \o (IF keepQuery THEN ReplaceAll(slashes, Escapes["?"], <<"?">>) ELSE slashes)

\* what an operation did: its result, the requests it issued in order, and
\* the device as it leaves it
Did(ret, threw, err, log, attempts, this) ==
    [ret |-> ret, threw |-> threw, err |-> err, log |-> log, attempts |-> attempts, this |-> this]
OfCall(c) == Did(~c.threw, c.threw, c.err, <<c.request>>, c.attempts, c.this)

\* an operation that asks for the path below the device's root
S3_object_Rooted(this, method, path, keepQuery, data, parameters, outcome) ==
    OfCall(S3_call(this, method, ObjectUri(this.root \o <<Slash>> \o path, keepQuery),
                   data, parameters, outcome))

\* write, read, delete, uploadPart and getInfo: one call for the object's uri
S3_object(this, method, path, keepQuery, data, parameters, outcome) ==
    OfCall(S3_call(this, method, ObjectUri(path, keepQuery), data, parameters, outcome))

S3_write(this, path, outcome) == S3_object(this, "PUT", path, TRUE, DataBody, <<>>, outcome)
S3_readObject(this, path, outcome) ==
    LET r == S3_object(this, "GET", path, FALSE, NoBody, <<>>, outcome)
    IN  IF r.threw THEN r ELSE [r EXCEPT !.ret = FALSE, !.threw = TRUE, !.err = TypeError]
S3_delete(this, path, outcome) == S3_object(this, "DELETE", path, FALSE, NoBody, <<>>, outcome)
S3_uploadPart(this, path, chunk, uploadId, outcome) ==
    S3_object(this, "PUT", path, TRUE, DataBody,
              <<<<"partNumber", <<DigitChars[chunk + 1]>>>>, <<"uploadId", uploadId>>>>, outcome)
S3_getInfo(this, path, outcome) == S3_object(this, "HEAD", path, FALSE, NoBody, <<>>, outcome)

\* exists: true when getInfo returned, false when it threw, whatever it threw
S3_exists(this, path, outcome) ==
    LET r == S3_getInfo(this, path, outcome)
    IN  [r EXCEPT !.ret = ~r.threw, !.threw = FALSE, !.err = NoFailure]

\* Local.write, read, delete, ...: the filesystem call gets filePath as it is
Local_fsCall(this, method, filePath) ==
    Did(TRUE, FALSE, NoFailure, <<Request(method, filePath, <<>>, NoBody, <<>>)>>, 0, this)

\* a page of a listing as the store answers it: the keys, and the token of
\* the next page ('' on the last one)
Page(keys, next) == [keys |-> keys, next |-> next]

\* the body of a ListObjectsV2 response as xml2js.Parser (default options)
\* decodes it: an object with the root element as its one key, and below it
\* every child element as an array of its occurrences
ListBucketResult(page) ==
    JsObject(<<<<"ListBucketResult",
        JsObject(<<<<"KeyCount", JsArray(<<JsString(<<DigitChars[Len(page.keys) + 1]>>)>>)>>>>
                 \o (IF page.keys = <<>> THEN <<>>
                     ELSE <<<<"Contents",
                              JsArray([i \in 1..Len(page.keys) |->
                                          JsObject(<<<<"Key", JsArray(<<JsString(page.keys[i])>>)>>>>)])>>>>)
                 \o (IF page.next = <<>> THEN <<>>
                     ELSE <<<<"NextContinuationToken", JsArray(<<JsString(page.next)>>)>>>>))>>>>)

MAX_PAGE_SIZE == <<"1", "0", "0", "0">>

\* prefix.replace(/^\//, '')
StripSlash(prefix) == IF prefix # <<>> /\ Head(prefix) = Slash THEN Tail(prefix) ELSE prefix

\* listObjects(prefix, maxKeys, continuationToken): the parameters of its GET /
ListParameters(prefix, continuationToken) ==
    <<<<"list-type", <<"2">>>>, <<"prefix", StripSlash(prefix)>>, <<"max-keys", MAX_PAGE_SIZE>>>>
    \o (IF continuationToken # <<>> THEN <<<<"continuation-token", continuationToken>>>> ELSE <<>>)

S3_listObjects(this, prefix, continuationToken, page) ==
    [request |-> S3_call(this, "GET", <<Slash>>, NoBody, ListParameters(prefix, continuationToken),
                         Response(200, "")).request,
     body |-> ListBucketResult(page)]

\* the do ... while loop of deletePath; the store answers the at-th list
\* call with the at-th page
RECURSIVE deletePathLoop(_, _, _, _, _, _)
deletePathLoop(this, path, continuationToken, pages, at, log) ==
    LET listed == S3_listObjects(this, path, continuationToken, pages[at])
        objects == listed.body
        count == parseInt(ToText(OrElse(Property(objects, "KeyCount"), JsString(<<"1">>))))
        log1 == Append(log, listed.request)
    IN  IF ~count.nan /\ count.n < 1 THEN Did(TRUE, FALSE, NoFailure, log1, Len(log1), this)
        ELSE LET next == OrElse(Property(objects, "NextContinuationToken"), JsString(<<>>))
                 contents == Property(objects, "Contents")
                 many == ~count.nan /\ count.n > 1
             IN  IF contents.t = "undefined" \/ (many /\ contents.t = "object")
                 THEN Did(FALSE, TRUE, TypeError, log1, Len(log1), this)
                 ELSE LET keys == IF many
                                  THEN [i \in 1..Len(contents.v) |->
                                           IF contents.t = "array"
                                           THEN ToText(Property(contents.v[i], "Key"))
                                           ELSE ToText(JsUndefined)]
                                  ELSE <<ToText(Property(contents, "Key"))>>
                          deleted == S3_call(this, "POST", <<Slash>>, DeleteBody(keys),
                                             <<<<"delete", <<>>>>>>, Response(200, ""))
                          log2 == Append(log1, deleted.request)
                      IN  IF Truthy(next) /\ at < Len(pages)
                          THEN deletePathLoop(this, path, ToText(next), pages, at + 1, log2)
                          ELSE Did(TRUE, FALSE, NoFailure, log2, Len(log2), this)

\* deletePath: path = `${this.getRoot()}/${path}`
S3_deletePath(this, path, pages) ==
    deletePathLoop(this, this.root \o <<Slash>> \o path, <<>>, pages, 1, <<>>)

\* the roots of the devices, the paths callers give, the keys a store lists
DeviceRoots == {<<>>, <<"r">>}
\* endpoints like localhost:9000 and play.min.io
Endpoints == {<<"h">>, <<"m", ".", "i", "o">>}
ObjectPaths == {<<>>, <<"f">>, <<"d", "/", "f">>, <<"d", "/", ".", ".", "/", "f">>, <<"a", " ", "f">>,
                <<"f", "?", "v">>}
ListedKeys == {<<"r", "/", "d", "/", "f">>, <<"r", "/", "d", "/", "g">>}
PagesOf(k) == {Page(keys, <<>>) : keys \in UNION {[1..m -> ListedKeys] : m \in 0..k}}
Pagings(k) ==
    {<<final>> : final \in PagesOf(k)}
    \cup {<<[first EXCEPT !.next = <<"t">>], final>> : first \in PagesOf(k), final \in PagesOf(k)}

NoNet == [this |-> Device("none", <<>>), op |-> "none", path |-> <<>>, outcome |-> Rejected,
          pages |-> <<>>, did |-> Did(FALSE, FALSE, NoFailure, <<>>, 0, Device("none", <<>>))]

(***************************************************************************)
(* The headers of an S3 instance: what an operation writes into            *)
(* this.headers and this.amzHeaders before it awaits this.call, and what   *)
(* call then sends and signs                                               *)
(***************************************************************************)
HOST == <<"h", "o", "s", "t">>
DATE == <<"d", "a", "t", "e">>
CONTENT_MD5 == <<"c", "o", "n", "t", "e", "n", "t", "-", "m", "d", "5">>
CONTENT_TYPE == <<"c", "o", "n", "t", "e", "n", "t", "-", "t", "y", "p", "e">>
RANGE == <<"r", "a", "n", "g", "e">>
X_AMZ_ACL == <<"x", "-", "a", "m", "z", "-", "a", "c", "l">>
METHOD_GET == <<"G", "E", "T">>
METHOD_PUT == <<"P", "U", "T">>
METHOD_POST == <<"P", "O", "S", "T">>
METHOD_DELETE == <<"D", "E", "L", "E", "T", "E">>
METHOD_HEAD == <<"H", "E", "A", "D">>

\* delete o[k]
Remove(o, k) == SelectSeq(o, LAMBDA e : e[1] # k)

\* for (const [header, value] of Object.entries(o)) if (value.length > 0) headers[header] = value
RECURSIVE PutEach(_, _)
PutEach(headers, entries) ==
    IF entries = <<>> THEN headers
    ELSE PutEach(IF Len(Head(entries)[2]) > 0 THEN Put(headers, Head(entries)[1], Head(entries)[2])
                 ELSE headers,
                 Tail(entries))

\* Buffer.from(this.md5(data)).toString('base64'): a text that depends on the data
Base64MD5(data) == <<"m", HexDigits[(Len(data) % 16) + 1], "=", "=">>

\* new S3(root, accessKey, secretKey, bucket, region)
NewS3 ==
    [headers |-> <<<<HOST, <<"b", ".", "s", "3">>>>, <<DATE, <<>>>>, <<CONTENT_MD5, <<>>>>, <<CONTENT_TYPE, <<>>>>>>,
     amzHeaders |-> <<>>,
     region |-> <<"r">>, secretKey |-> <<"s">>, accessKey |-> <<"k">>, acl |-> <<"p", "r", "i", "v", "a", "t", "e">>]

S3Operations ==
    {"read", "readRange", "write", "delete", "getInfo", "uploadPart", "createMultipartUpload",
     "completeMultipartUpload", "abort", "listObjects"}

\* the lines of an operation that come before its this.call(...)
Before_call(this, op, data, contentType) ==
    LET h == this.headers
        a == this.amzHeaders
        empty == Base64MD5(<<>>)
        bare == Remove(Remove(a, X_AMZ_ACL), X_AMZ_CONTENT_SHA256)
    IN  CASE op = "read" ->
               [this EXCEPT !.amzHeaders = bare,
                            !.headers = Remove(Put(Remove(h, CONTENT_TYPE), CONTENT_MD5, empty), RANGE)]
          [] op = "readRange" ->
               [this EXCEPT !.amzHeaders = bare,
                            !.headers = Put(Put(Remove(h, CONTENT_TYPE), CONTENT_MD5, empty),
                                            RANGE, <<"b", "y", "t", "e", "s", "=", "0", "-", "1">>)]
          [] op = "write" ->
               [this EXCEPT !.headers = Put(Put(h, CONTENT_TYPE, contentType), CONTENT_MD5, Base64MD5(data)),
                            !.amzHeaders = Put(Put(a, X_AMZ_CONTENT_SHA256, HexDigest(data)),
                                               X_AMZ_ACL, this.acl)]
          [] op \in {"delete", "getInfo"} ->
               [this EXCEPT !.headers = Put(Remove(h, CONTENT_TYPE), CONTENT_MD5, empty),
                            !.amzHeaders = bare]
          [] op = "uploadPart" ->
               [this EXCEPT !.headers = Put(Put(h, CONTENT_TYPE, contentType), CONTENT_MD5, Base64MD5(data)),
                            !.amzHeaders = Remove(Put(a, X_AMZ_CONTENT_SHA256, HexDigest(data)), X_AMZ_ACL)]
          [] op = "createMultipartUpload" ->
               [this EXCEPT !.headers = Put(Put(h, CONTENT_MD5, empty), CONTENT_TYPE, contentType),
                            !.amzHeaders = Put(Remove(a, X_AMZ_CONTENT_SHA256), X_AMZ_ACL, this.acl)]
          [] op = "completeMultipartUpload" ->
               [this EXCEPT !.amzHeaders = Put(a, X_AMZ_CONTENT_SHA256, HexDigest(data)),
                            !.headers = Put(h, CONTENT_MD5, Base64MD5(data))]
          [] op = "abort" ->
               [this EXCEPT !.headers = Put(Remove(h, CONTENT_TYPE), CONTENT_MD5, empty)]
          [] op = "listObjects" ->
               [this EXCEPT !.headers = Put(Put(h, CONTENT_TYPE, <<"t", "e", "x", "t", "/", "p", "l", "a", "i", "n">>), CONTENT_MD5, empty),
                            !.amzHeaders = bare]

\* the method an operation passes to call, and the data it passes
MethodOf(op) ==
    CASE op \in {"read", "readRange", "listObjects"} -> METHOD_GET
      [] op \in {"write", "uploadPart"} -> METHOD_PUT
      [] op \in {"createMultipartUpload", "completeMultipartUpload"} -> METHOD_POST
      [] op \in {"delete", "abort"} -> METHOD_DELETE
      [] op = "getInfo" -> METHOD_HEAD
DataOf(op, data) ==
    IF op \in {"write", "uploadPart", "completeMultipartUpload"} THEN data ELSE <<>>

\* call up to fetch: the date headers are set, x-amz-content-sha256 is filled
\* in when the instance holds none, the headers that are not empty are taken
\* over, the request is signed, and only PUT and POST carry the data
Sent(this, method, uri, data, parameters) ==
    LET dated == Put(this.amzHeaders, X_AMZ_DATE, AmzDate[2])
        amzHeaders == IF X_AMZ_CONTENT_SHA256 \in Keys(dated) /\ Get(dated, X_AMZ_CONTENT_SHA256) # <<>>
                      THEN dated
                      ELSE Put(dated, X_AMZ_CONTENT_SHA256, HexDigest(data))
        that == [this EXCEPT !.amzHeaders = amzHeaders,
                             !.headers = Put(this.headers, DATE, <<"T", "u", "e">>)]
        signed == getSignatureV4(that, method, uri, parameters)
    IN  [this |-> that,
         request |-> [method |-> method,
                      headers |-> PutEach(PutEach(<<>>, that.amzHeaders), that.headers),
                      signedHeaders |-> signed.signedHeaders,
                      headerLines |-> signed.headerLines,
                      body |-> IF method \in {METHOD_PUT, METHOD_POST} THEN data ELSE <<>>]]

Bodies == {<<"x">>, <<"y", "y">>}
MimeTypes == {<<>>, <<"i", "m", "a", "g", "e", "/", "p", "n", "g">>}
NoDev == [this |-> NewS3, op |-> "none",
          request |-> [method |-> <<>>, headers |-> <<>>, signedHeaders |-> <<>>,
                       headerLines |-> <<>>, body |-> <<>>]]

\* the uploadId as a request's query carries it: `${undefined}` for the missing one
UploadIdText(uploadId) ==
    IF uploadId = 0 THEN ToText(JsUndefined) ELSE <<DigitChars[uploadId + 1]>>

\* abort(path, extra = ''): the caller passes metadata['uploadId'], and the
\* default stands in for a missing one
AbortIdText(uploadId) ==
    IF uploadId = 0 THEN <<>> ELSE <<DigitChars[uploadId + 1]>>

\* ended: the uploadIds whose completion or abort succeeded; asked: those a
\* completion was issued for; parts, completions: the uploadIds the last
\* call's uploadPart and completeMultipartUpload named; was: ended and asked
\* before the last call; supplied: the uploadId the caller put into the bag
\* (0: none); creates: the createMultipartUpload requests the store has
\* answered with a new upload; failed: the request of the last call that failed
NoMultipart == [op |-> "none", ended |-> {}, asked |-> {}, parts |-> {}, completions |-> {},
                was |-> [ended |-> {}, asked |-> {}],
                supplied |-> 0, creates |-> 0, failed |-> "none"]

\* no uploadData call has returned yet
NoRetry == [done |-> {}]

\* metadata['parts'] = {}, and no body built yet
NoComplete == [parts |-> <<>>, built |-> FALSE, body |-> <<>>]

MoreIdle ==
    /\ resolved = NoResolved
    /\ sig = NoSig
    /\ del = NoDelete
    /\ net = NoNet
    /\ mpu = NoMultipart
    /\ dev = NoDev
    /\ up = NoRetry
    /\ cmp = NoComplete

LaterIdle ==
    /\ inst = NoInst /\ ref = NoRef /\ rlast = NoRestartCall
    /\ hdr = NoHeaders /\ proc = [p \in Callers |-> Idle] /\ wire = [p \in Callers |-> NoRequest]
    /\ race = NoRace
    /\ MoreIdle

(***************************************************************************)
(* The chunked upload of one target through a Local device                 *)
(***************************************************************************)
LogLines(f) == IF f.log.exists THEN Len(f.log.data) ELSE 0
PartFiles(f) == Cardinality({i \in 1..MaxChunks : f.parts[i].exists})

NoCall == [op |-> "none", chunk |-> 0, ret |-> 0, threw |-> FALSE,
           had |-> FALSE, changed |-> FALSE, before |-> 0]

InitLocal ==
    /\ total \in 1..MaxChunks
    /\ \E t \in {Absent, File(OldContent)} :
          fs = [dir |-> TRUE, target |-> t, tmp |-> FALSE, log |-> Absent, parts |-> NoParts]
    /\ fs0 = fs
    /\ n = 0
    /\ inOrder = TRUE
    /\ faults = 0
    /\ ops = {}
    /\ sent = NoParts
    /\ last = NoCall
    /\ src = Absent
    /\ tcs = 1
    /\ tres = NoTransfer
    /\ bag = EmptyBag
    /\ s3last = NoS3Call
    /\ alast = NoAbort
    /\ store = NoStore /\ mlast = NoMove
    /\ LaterIdle

Called(op, r, chunk, data, fault) ==
    /\ fault = NoFault \/ (r.hit /\ faults < MaxFaults)
    /\ fs' = r.fs
    /\ n' = n + 1
    /\ inOrder' = (inOrder /\ chunk = n + 1)
    /\ faults' = IF r.hit THEN faults + 1 ELSE faults
    /\ ops' = ops \cup {op}
    /\ sent' = IF r.wrote THEN [sent EXCEPT ![chunk] = File(data)] ELSE sent
    /\ last' = [op |-> op, chunk |-> chunk, ret |-> r.ret, threw |-> r.threw,
                had |-> fs.parts[chunk].exists,
                changed |-> (fs.parts[chunk].exists /\ fs.parts[chunk].data # data),
                before |-> LogLines(fs)]
    /\ UNCHANGED <<total, fs0, transferVars, s3Vars, abortVars, moveVars, laterVars>>

UploadData ==
    /\ n < MaxCalls
    /\ \E chunk \in 1..total, data \in Payloads :
          Called("uploadData", Local_uploadData(fs, data, chunk, total, NoFault), chunk, data, NoFault)

Upload ==
    /\ n < MaxCalls
    /\ \E chunk \in 1..total, data \in Payloads :
          Called("upload", Local_upload(fs, data, chunk, total, NoFault), chunk, data, NoFault)

\* the same calls, with one of their filesystem calls failing
UploadDataFails ==
    /\ n < MaxCalls
    /\ \E chunk \in 1..total, data \in Payloads, fault \in Faults \ {NoFault} :
          Called("uploadData", Local_uploadData(fs, data, chunk, total, fault), chunk, data, fault)

UploadFails ==
    /\ n < MaxCalls
    /\ \E chunk \in 1..total, data \in Payloads, fault \in Faults \ {NoFault} :
          Called("upload", Local_upload(fs, data, chunk, total, fault), chunk, data, fault)

NextLocal == UploadData \/ Upload

SpecLocal == InitLocal /\ [][NextLocal]_vars

NextLocalFaults == UploadData \/ Upload \/ UploadDataFails \/ UploadFails

SpecLocalFaults == InitLocal /\ [][NextLocalFaults]_vars

(***************************************************************************)
(* Transfers of one source to one path of a Local destination device       *)
(***************************************************************************)
\* the source's bytes are 1, 2, ..., size: any loss, repetition or reordering shows
Content(size) == [i \in 1..size |-> i]

InitTransfer ==
    /\ tcs \in 1..MaxChunkSize
    /\ \E size \in 0..(tcs * MaxChunks) : src \in {Absent, File(Content(size))}
    /\ fs = [dir |-> TRUE, target |-> Absent, tmp |-> FALSE, log |-> Absent, parts |-> NoParts]
    /\ tres = NoTransfer
    /\ n = 0
    /\ total = 1 /\ fs0 = fs /\ inOrder = TRUE /\ faults = 0 /\ ops = {}
    /\ sent = NoParts /\ last = NoCall
    /\ bag = EmptyBag /\ s3last = NoS3Call
    /\ alast = NoAbort
    /\ store = NoStore /\ mlast = NoMove
    /\ LaterIdle

Transferred(kind, r, tf) ==
    /\ tf = NoTFault \/ r.hit
    /\ fs' = r.fs
    /\ n' = n + 1
    /\ tres' = [kind |-> kind, ret |-> r.ret, threw |-> r.threw, hit |-> r.hit,
                failedAt |-> r.failedAt, calls |-> r.calls, err |-> r.err]
    /\ UNCHANGED <<src, tcs, localVars, s3Vars, abortVars, moveVars, laterVars>>

LocalTransfer ==
    /\ n < MaxTransfers
    /\ \E tf \in TFaults : Transferred("local", Local_transfer(src, fs, tcs, tf), tf)

S3Transfer ==
    /\ n < MaxTransfers
    /\ \E tf \in TFaults : Transferred("s3", S3_transfer(src, fs, tcs, tf), tf)

NextTransfer == LocalTransfer \/ S3Transfer

SpecTransfer == InitTransfer /\ [][NextTransfer]_vars

(***************************************************************************)
(* uploadData calls on an S3 device, all with one metadata bag             *)
(***************************************************************************)
InitS3 ==
    /\ total \in 1..MaxChunks
    /\ bag = EmptyBag
    /\ s3last = NoS3Call
    /\ alast = NoAbort
    /\ store = NoStore /\ mlast = NoMove
    /\ LaterIdle
    /\ n = 0
    /\ fs = [dir |-> TRUE, target |-> Absent, tmp |-> FALSE, log |-> Absent, parts |-> NoParts]
    /\ fs0 = fs /\ inOrder = TRUE /\ faults = 0 /\ ops = {}
    /\ sent = NoParts /\ last = NoCall
    /\ src = Absent /\ tcs = 1 /\ tres = NoTransfer

\* the caller passes total as totalChunks; inRange: every index so far was in 1..total
S3UploadData ==
    /\ n < MaxCalls
    /\ \E chunk \in 1..MaxChunks, resp \in Resps :
          LET r == S3_uploadData(bag, chunk, total, resp)
          IN  /\ bag' = r.bag
              /\ s3last' = [chunk |-> chunk, etag |-> resp.etag,
                            ret |-> r.ret, threw |-> r.threw, created |-> r.created,
                            uploaded |-> r.uploaded, completed |-> r.completed,
                            wasIn |-> (bag.hasParts /\ chunk \in DOMAIN bag.parts),
                            inRange |-> (s3last.inRange /\ chunk <= total)]
    /\ n' = n + 1
    /\ UNCHANGED <<fs, localVars, transferVars, abortVars, moveVars, laterVars>>

NextS3 == S3UploadData

SpecS3 == InitS3 /\ [][NextS3]_vars

(***************************************************************************)
(* Chunked uploads and aborts of one target: Local.upload, Local.uploadData *)
(* and Local.abort on the target's path, S3.abort for an uploadId          *)
(***************************************************************************)
\* the target's directory may not exist yet; a file can only be in a directory
InitAbort ==
    /\ total \in 1..MaxChunks
    /\ \E d \in BOOLEAN, t \in {Absent, File(OldContent)} :
          /\ t.exists => d
          /\ fs = [dir |-> d, target |-> t, tmp |-> FALSE, log |-> Absent, parts |-> NoParts]
    /\ fs0 = fs
    /\ n = 0
    /\ inOrder = TRUE
    /\ faults = 0
    /\ ops = {}
    /\ sent = NoParts
    /\ last = NoCall
    /\ alast = NoAbort
    /\ store = NoStore /\ mlast = NoMove
    /\ LaterIdle
    /\ src = Absent /\ tcs = 1 /\ tres = NoTransfer
    /\ bag = EmptyBag /\ s3last = NoS3Call

Aborted(r, fault) ==
    /\ fault = NoFault \/ r.hit
    /\ fs' = r.fs
    /\ n' = n + 1
    /\ alast' = [op |-> "local", at |-> n + 1, ret |-> r.ret, threw |-> r.threw, hit |-> r.hit,
                 hadDir |-> fs.dir, hadTmp |-> fs.tmp, hadTarget |-> fs.target.exists,
                 hadFiles |-> ~DirEmpty(fs), status |-> 0]
    /\ UNCHANGED <<localVars, transferVars, s3Vars, moveVars, laterVars>>

Abort ==
    /\ n < MaxCalls
    /\ Aborted(Local_abort(fs, NoFault), NoFault)

\* the same call, with one of its filesystem calls failing
AbortFails ==
    /\ n < MaxCalls
    /\ \E fault \in AbortFaults : Aborted(Local_abort(fs, fault), fault)

S3Abort ==
    /\ n < MaxCalls
    /\ \E status \in AbortStatuses :
          LET r == S3_abort(status)
          IN  alast' = [op |-> "s3", at |-> n + 1, ret |-> r.ret, threw |-> r.threw, hit |-> FALSE,
                        hadDir |-> FALSE, hadTmp |-> FALSE, hadTarget |-> FALSE,
                        hadFiles |-> FALSE, status |-> status]
    /\ n' = n + 1
    /\ UNCHANGED <<fs, localVars, transferVars, s3Vars, moveVars, laterVars>>

NextAbort == UploadData \/ Upload \/ Abort \/ AbortFails \/ S3Abort

SpecAbort == InitAbort /\ [][NextAbort]_vars

(***************************************************************************)
(* move calls on one device holding two paths                              *)
(***************************************************************************)
InitMove ==
    /\ store \in [kind : {"local", "s3"}, files : [Paths -> {Absent} \cup {File(d) : d \in Payloads}]]
    /\ mlast = NoMove
    /\ tcs \in 1..MaxChunkSize
    /\ n = 0
    /\ fs = [dir |-> TRUE, target |-> Absent, tmp |-> FALSE, log |-> Absent, parts |-> NoParts]
    /\ total = 1 /\ fs0 = fs /\ inOrder = TRUE /\ faults = 0 /\ ops = {}
    /\ sent = NoParts /\ last = NoCall
    /\ src = Absent /\ tres = NoTransfer
    /\ bag = EmptyBag /\ s3last = NoS3Call
    /\ alast = NoAbort
    /\ LaterIdle

Moved(op, source, target, r, failing) ==
    /\ failing => r.hit
    /\ store' = [store EXCEPT !.files = r.files]
    /\ mlast' = [op |-> op, source |-> source, target |-> target, ret |-> r.ret,
                 threw |-> r.threw, hit |-> r.hit, calls |-> r.calls,
                 was |-> store.files[source], err |-> r.err]
    /\ n' = n + 1
    /\ UNCHANGED <<fs, tcs, src, tres, localVars, s3Vars, abortVars, laterVars>>

LocalMove ==
    /\ n < MaxCalls /\ store.kind = "local"
    /\ \E source \in Paths, target \in Paths, fault \in {NoFault, Fault("rename", 0)} :
          Moved("Local.move", source, target,
                Local_move(store.files, source, target, fault), fault # NoFault)

DeviceMove ==
    /\ n < MaxCalls /\ store.kind = "s3"
    /\ \E source \in Paths, target \in Paths, fail \in {"none", "head", "put", "delete"} :
          Moved("Device.move", source, target,
                Device_move(store.files, source, target, tcs, fail), fail # "none")

NextMove == LocalMove \/ DeviceMove

SpecMove == InitMove /\ [][NextMove]_vars

(***************************************************************************)
(* One chunked upload made twice with the same calls: by processes that    *)
(* restart between calls (fs, inst, bag), and by one process that never    *)
(* restarts (ref)                                                          *)
(***************************************************************************)
InitRestart ==
    /\ total \in 1..MaxChunks
    /\ \E t \in {Absent, File(OldContent)} :
          fs = [dir |-> TRUE, target |-> t, tmp |-> FALSE, log |-> Absent, parts |-> NoParts]
    /\ \E root \in Roots : inst = Local(root, 1)
    /\ bag \in CallerBags
    /\ ref = [fs |-> fs, bag |-> bag]
    /\ rlast = NoRestartCall
    /\ n = 0
    /\ fs0 = fs /\ inOrder = TRUE /\ faults = 0 /\ ops = {} /\ sent = NoParts /\ last = NoCall
    /\ src = Absent /\ tcs = 1 /\ tres = NoTransfer
    /\ s3last = NoS3Call /\ alast = NoAbort
    /\ store = NoStore /\ mlast = NoMove
    /\ hdr = NoHeaders /\ proc = [p \in Callers |-> Idle] /\ wire = [p \in Callers |-> NoRequest]
    /\ race = NoRace
    /\ MoreIdle

BothCalled(op, chunk, a, b) ==
    /\ fs' = a.res.fs
    /\ bag' = a.metadata
    /\ ref' = [fs |-> b.res.fs, bag |-> b.metadata]
    /\ rlast' = [op |-> op, chunk |-> chunk, ret |-> a.res.ret, threw |-> a.res.threw,
                 refRet |-> b.res.ret, refThrew |-> b.res.threw]
    /\ n' = n + 1
    /\ UNCHANGED <<inst, s3last, localVars, transferVars, abortVars, moveVars, reqVars, raceVars, moreVars>>

RestartUploadData ==
    /\ n < MaxCalls
    /\ \E chunk \in 1..total, data \in Payloads :
          BothCalled("uploadData", chunk,
                     Local_uploadDataOn(inst, bag, fs, data, chunk, total),
                     Local_uploadDataOn(Local(inst.root, 1), ref.bag, ref.fs, data, chunk, total))

RestartUpload ==
    /\ n < MaxCalls
    /\ \E chunk \in 1..total, data \in Payloads :
          BothCalled("upload", chunk,
                     Local_uploadOn(inst, bag, fs, data, chunk, total),
                     Local_uploadOn(Local(inst.root, 1), ref.bag, ref.fs, data, chunk, total))

\* the process ends and a new one starts: a fresh instance, for any root, and
\* a caller that holds a new, empty bag; the files stay
Restart ==
    /\ inst.id <= MaxRestarts
    /\ \E root \in Roots : inst' = Local(root, inst.id + 1)
    /\ bag' = EmptyBag
    /\ UNCHANGED <<fs, n, ref, rlast, s3last, localVars, transferVars, abortVars, moveVars, reqVars, raceVars, moreVars>>

NextRestart == RestartUploadData \/ RestartUpload \/ Restart

SpecRestart == InitRestart /\ [][NextRestart]_vars

(***************************************************************************)
(* Two callers using one S3 instance at the same time, each for a path of  *)
(* its own                                                                 *)
(***************************************************************************)
PathOf(p) == IF p = 1 THEN "a" ELSE "b"

InitRequests ==
    /\ hdr = NoHeaders
    /\ proc = [p \in Callers |-> Idle]
    /\ wire = [p \in Callers |-> NoRequest]
    /\ n = 0
    /\ fs = [dir |-> TRUE, target |-> Absent, tmp |-> FALSE, log |-> Absent, parts |-> NoParts]
    /\ total = 1 /\ fs0 = fs /\ inOrder = TRUE /\ faults = 0 /\ ops = {}
    /\ sent = NoParts /\ last = NoCall
    /\ src = Absent /\ tcs = 1 /\ tres = NoTransfer
    /\ bag = EmptyBag /\ s3last = NoS3Call
    /\ alast = NoAbort
    /\ store = NoStore /\ mlast = NoMove
    /\ inst = NoInst /\ ref = NoRef /\ rlast = NoRestartCall
    /\ race = NoRace
    /\ MoreIdle

reqFrame == <<fs, localVars, transferVars, s3Vars, abortVars, moveVars, restartVars, raceVars, moreVars>>

\* write / uploadPart up to the first await of call
Issue(p) ==
    /\ n < MaxCalls
    /\ proc[p].pc = "idle"
    /\ \E op \in Ops(PathOf(p)) :
          /\ hdr' = Prepared(hdr, op)
          /\ proc' = [proc EXCEPT ![p] = [pc |-> "called", op |-> op]]
    /\ n' = n + 1
    /\ UNCHANGED <<wire, reqFrame>>

\* call from its first await to `await fetch(url, fetchOptions)`
Send(p) ==
    /\ proc[p].pc = "called"
    /\ hdr' = Completed(hdr, proc[p].op.data)
    /\ wire' = [wire EXCEPT ![p] = RequestOf(hdr', proc[p].op)]
    /\ proc' = [proc EXCEPT ![p].pc = "sent"]
    /\ UNCHANGED <<n, reqFrame>>

\* the response arrives and the operation returns
Answer(p) ==
    /\ proc[p].pc = "sent"
    /\ proc' = [proc EXCEPT ![p] = Idle]
    /\ UNCHANGED <<n, hdr, wire, reqFrame>>

NextRequests == \E p \in Callers : Issue(p) \/ Send(p) \/ Answer(p)

SpecRequests == InitRequests /\ [][NextRequests]_vars

(***************************************************************************)
(* Two uploadData calls that deliver the last two missing indices of one   *)
(* target: total - 1 and total.  The indices before them were delivered    *)
(* one call after the other, with payload <<1>>.                           *)
(***************************************************************************)
InitOverlap ==
    /\ total \in 2..MaxChunks
    /\ fs = [dir |-> TRUE, target |-> Absent, tmp |-> total > 2,
             log |-> IF total > 2 THEN File([k \in 1..(total - 2) |-> k]) ELSE Absent,
             parts |-> [k \in 1..MaxChunks |-> IF k <= total - 2 THEN File(<<1>>) ELSE Absent]]
    /\ \E c \in Callers, d \in [Callers -> Payloads] :
          race = [calls |-> [k \in Callers |->
                                [NotCalled EXCEPT !.chunk = IF k = c THEN total - 1 ELSE total,
                                                  !.data = d[k]]],
                  overlapped |-> FALSE]
    /\ n = 0
    /\ fs0 = fs /\ inOrder = TRUE /\ faults = 0 /\ ops = {} /\ sent = NoParts /\ last = NoCall
    /\ src = Absent /\ tcs = 1 /\ tres = NoTransfer
    /\ bag = EmptyBag /\ s3last = NoS3Call
    /\ alast = NoAbort
    /\ store = NoStore /\ mlast = NoMove
    /\ inst = NoInst /\ ref = NoRef /\ rlast = NoRestartCall
    /\ hdr = NoHeaders /\ proc = [p \in Callers |-> Idle] /\ wire = [p \in Callers |-> NoRequest]
    /\ MoreIdle

raceFrame == <<localVars, transferVars, s3Vars, abortVars, moveVars, restartVars, reqVars, moreVars>>

\* the call of caller c moves to call', leaving the files as f
Stepped(c, call, f) ==
    /\ race' = [race EXCEPT !.calls[c] = call]
    /\ fs' = f
    /\ UNCHANGED <<n, raceFrame>>

\* uploadData is called
Start(c) ==
    /\ race.calls[c].pc = "idle"
    /\ race' = [race EXCEPT !.calls[c].pc = "mkdir",
                            !.overlapped = @ \/ \E o \in Callers \ {c} : Running(race.calls[o])]
    /\ n' = n + 1
    /\ UNCHANGED <<fs, raceFrame>>

\* createDirectory(dirname(filePath)); createDirectory(dirname(tmp))
MakeDirectories(c) ==
    /\ race.calls[c].pc = "mkdir"
    /\ Stepped(c, [race.calls[c] EXCEPT !.pc = "append"], [createDirectory(fs) EXCEPT !.tmp = TRUE])

\* fs.appendFile(tmp, `${chunk}\n`)
AppendLog(c) ==
    LET call == race.calls[c]
    IN  /\ call.pc = "append"
        /\ IF ~fs.tmp THEN Stepped(c, Fail(call), fs)
           ELSE Stepped(c, [call EXCEPT !.pc = "count"],
                        [fs EXCEPT !.log = appendFile(@, <<call.chunk>>)])

\* chunksReceived = (await fs.readFile(tmp)).trim().split("\n").length
CountLog(c) ==
    LET call == race.calls[c]
    IN  /\ call.pc = "count"
        /\ IF ~fs.log.exists THEN Stepped(c, Fail(call), fs)
           ELSE Stepped(c, [call EXCEPT !.pc = "write", !.received = CountLines(fs.log.data)], fs)

\* fs.writeFile(chunkFilePath, data), then the test that sends it into joinChunks
WritePart(c) ==
    LET call == race.calls[c]
        f == [fs EXCEPT !.parts[call.chunk] = writeFile(@, call.data)]
    IN  /\ call.pc = "write"
        /\ IF ~fs.tmp THEN Stepped(c, Fail(call), fs)
           ELSE IF ChunksComplete(total, call.received)
           THEN Stepped(c, [call EXCEPT !.pc = "jread", !.i = 1, !.joined = TRUE,
                                        !.early = \E k \in 1..total : ~f.parts[k].exists], f)
           ELSE Stepped(c, [call EXCEPT !.pc = "done"], f)

\* joinChunks: data = await fs.readFile(part)
JoinRead(c) ==
    LET call == race.calls[c]
    IN  /\ call.pc = "jread"
        /\ IF ~fs.parts[call.i].exists
           THEN Stepped(c, [Fail(call) EXCEPT !.missing = TRUE], fs)
           ELSE Stepped(c, [call EXCEPT !.pc = "jappend", !.buf = fs.parts[call.i].data], fs)

\* joinChunks: fs.appendFile(filePath, data)
JoinAppend(c) ==
    LET call == race.calls[c]
    IN  /\ call.pc = "jappend"
        /\ Stepped(c, [call EXCEPT !.pc = "junlink"], [fs EXCEPT !.target = appendFile(@, call.buf)])

\* joinChunks: fs.unlink(part), then the next i
JoinUnlink(c) ==
    LET call == race.calls[c]
    IN  /\ call.pc = "junlink"
        /\ IF ~fs.parts[call.i].exists THEN Stepped(c, Fail(call), fs)
           ELSE Stepped(c, [call EXCEPT !.pc = IF call.i + 1 > total THEN "junlinkLog" ELSE "jread",
                                        !.i = call.i + 1],
                        [fs EXCEPT !.parts[call.i] = Absent])

\* joinChunks: fs.unlink(tmp)
JoinUnlinkLog(c) ==
    LET call == race.calls[c]
    IN  /\ call.pc = "junlinkLog"
        /\ IF ~fs.log.exists THEN Stepped(c, Fail(call), fs)
           ELSE Stepped(c, [call EXCEPT !.pc = "jrmdir"], [fs EXCEPT !.log = Absent])

\* joinChunks: fs.rmdir(dirname(tmp)), then return chunksReceived
JoinRmdir(c) ==
    LET call == race.calls[c]
    IN  /\ call.pc = "jrmdir"
        /\ IF ~fs.tmp \/ ~DirEmpty(fs) THEN Stepped(c, Fail(call), fs)
           ELSE Stepped(c, [call EXCEPT !.pc = "done"], [fs EXCEPT !.tmp = FALSE])

NextOverlap ==
    \E c \in Callers :
        \/ Start(c) \/ MakeDirectories(c) \/ AppendLog(c) \/ CountLog(c) \/ WritePart(c)
        \/ JoinRead(c) \/ JoinAppend(c) \/ JoinUnlink(c) \/ JoinUnlinkLog(c) \/ JoinRmdir(c)

SpecOverlap == InitOverlap /\ [][NextOverlap]_vars

(***************************************************************************)
(* The variables of the specifications above, at rest                      *)
(***************************************************************************)
DevicesIdle ==
    /\ fs = [dir |-> TRUE, target |-> Absent, tmp |-> FALSE, log |-> Absent, parts |-> NoParts]
    /\ n = 0
    /\ total = 1 /\ fs0 = fs /\ inOrder = TRUE /\ faults = 0 /\ ops = {}
    /\ sent = NoParts /\ last = NoCall
    /\ src = Absent /\ tcs = 1 /\ tres = NoTransfer
    /\ bag = EmptyBag /\ s3last = NoS3Call
    /\ alast = NoAbort
    /\ store = NoStore /\ mlast = NoMove
    /\ inst = NoInst /\ ref = NoRef /\ rlast = NoRestartCall
    /\ hdr = NoHeaders /\ proc = [p \in Callers |-> Idle] /\ wire = [p \in Callers |-> NoRequest]
    /\ race = NoRace
    /\ mpu = NoMultipart
    /\ dev = NoDev
    /\ up = NoRetry
    /\ cmp = NoComplete

devicesFrame == <<fs, n, localVars, transferVars, s3Vars, abortVars, moveVars,
                  restartVars, reqVars, raceVars, multipartVars, headerVars, retryVars,
                  completeVars>>

(***************************************************************************)
(* getAbsolutePath of a path, and of what it returned                      *)
(***************************************************************************)
InitPaths ==
    /\ \E path \in PathsUpTo(MaxPathLen) \cup TestPaths :
          resolved = [NoResolved EXCEPT !.pc = "given", !.path = path]
    /\ sig = NoSig /\ del = NoDelete /\ net = NoNet
    /\ DevicesIdle

Resolve ==
    /\ resolved.pc = "given"
    /\ resolved' = [resolved EXCEPT !.pc = "once", !.once = getAbsolutePath(resolved.path)]
    /\ UNCHANGED <<devicesFrame, signVars, deleteVars, backendVars>>

ResolveAgain ==
    /\ resolved.pc = "once"
    /\ resolved' = [resolved EXCEPT !.pc = "twice", !.twice = getAbsolutePath(resolved.once)]
    /\ UNCHANGED <<devicesFrame, signVars, deleteVars, backendVars>>

NextPaths == Resolve \/ ResolveAgain

SpecPaths == InitPaths /\ [][NextPaths]_vars

(***************************************************************************)
(* getSignatureV4 called on an S3 instance                                 *)
(***************************************************************************)
InitSign ==
    /\ \E this \in Signers, method \in {<<"G", "E", "T">>, <<"P", "U", "T">>}, uri \in {<<"/", "f">>, <<"/", "f", "?", "a">>},
          parameters \in {o \in Objects(ParameterKeys, ParameterValues, MaxEntries) : Distinct(o)} :
          sig = [NoSig EXCEPT !.pc = "called", !.this = this, !.method = method, !.uri = uri,
                              !.parameters = parameters]
    /\ resolved = NoResolved /\ del = NoDelete /\ net = NoNet
    /\ DevicesIdle

\* the method reads this.headers, this.amzHeaders and the keys; it assigns
\* to locals only
Sign ==
    /\ sig.pc = "called"
    /\ sig' = [sig EXCEPT !.pc = "returned",
                          !.out = getSignatureV4(sig.this, sig.method, sig.uri, sig.parameters)]
    /\ UNCHANGED <<devicesFrame, pathVars, deleteVars, backendVars>>

NextSign == Sign

SpecSign == InitSign /\ [][NextSign]_vars

(***************************************************************************)
(* delete calls on one path of the Local device                            *)
(***************************************************************************)
InitDelete ==
    /\ \E node \in Trees \cup {Nothing} : del = [NoDelete EXCEPT !.pc = "idle", !.node = node]
    /\ resolved = NoResolved /\ sig = NoSig /\ net = NoNet
    /\ DevicesIdle

Delete ==
    /\ n < MaxCalls
    /\ \E recursive \in BOOLEAN :
          LET r == Local_delete(del.node, recursive)
          IN  del' = [pc |-> "returned", node |-> r.node, was |-> del.node,
                      recursive |-> recursive, ret |-> r.ret]
    /\ n' = n + 1
    /\ UNCHANGED <<fs, localVars, transferVars, s3Vars, abortVars, moveVars, restartVars,
                   reqVars, raceVars, pathVars, signVars, backendVars, multipartVars, headerVars,
                   retryVars, completeVars>>

NextDelete == Delete

SpecDelete == InitDelete /\ [][NextDelete]_vars

(***************************************************************************)
(* The operations of one device, each with the requests it issues          *)
(***************************************************************************)
InitBackend ==
    /\ \E root \in DeviceRoots :
          \E this \in {Device("s3", root), Device("local", root)}
                      \cup {MinIO(root, endpoint) : endpoint \in Endpoints} :
             net = [NoNet EXCEPT !.this = this]
    /\ resolved = NoResolved /\ sig = NoSig /\ del = NoDelete
    /\ DevicesIdle

backendFrame == <<devicesFrame, pathVars, signVars, deleteVars>>

\* an operation is called on the device and returns or throws
Operated(op, path, outcome, pages, did) ==
    /\ net.op = "none"
    /\ net' = [net EXCEPT !.op = op, !.path = path, !.outcome = outcome, !.pages = pages,
                          !.did = did]
    /\ UNCHANGED backendFrame

S3Write ==
    /\ net.this.kind \in Buckets
    /\ \E path \in ObjectPaths, outcome \in Outcomes :
          Operated("write", path, outcome, <<>>, S3_write(net.this, path, outcome))

S3Read ==
    /\ net.this.kind \in Buckets
    /\ \E path \in ObjectPaths, outcome \in Outcomes :
          Operated("read", path, outcome, <<>>, S3_readObject(net.this, path, outcome))

S3Delete ==
    /\ net.this.kind \in Buckets
    /\ \E path \in ObjectPaths, outcome \in Outcomes :
          Operated("delete", path, outcome, <<>>, S3_delete(net.this, path, outcome))

S3UploadPart ==
    /\ net.this.kind \in Buckets
    /\ \E path \in ObjectPaths, outcome \in Outcomes, chunk \in 1..MaxChunks :
          Operated("uploadPart", path, outcome, <<>>,
                   S3_uploadPart(net.this, path, chunk, <<"u">>, outcome))

S3Exists ==
    /\ net.this.kind \in Buckets
    /\ \E path \in ObjectPaths, outcome \in Outcomes :
          Operated("exists", path, outcome, <<>>, S3_exists(net.this, path, outcome))

S3DeletePath ==
    /\ net.this.kind \in Buckets
    /\ \E path \in ObjectPaths, pages \in Pagings(MaxEntries) :
          Operated("deletePath", path, Response(200, ""), pages, S3_deletePath(net.this, path, pages))

LocalCall ==
    /\ net.this.kind = "local"
    /\ \E path \in ObjectPaths \ {<<>>}, method \in {"writeFile", "open", "unlink"} :
          Operated(method, path, Response(200, ""), <<>>, Local_fsCall(net.this, method, path))

\* the caller has taken the result; the device is as the operation left it
Finish ==
    /\ net.op # "none"
    /\ net' = [NoNet EXCEPT !.this = net.did.this]
    /\ UNCHANGED backendFrame

NextBackend ==
    S3Write \/ S3Read \/ S3Delete \/ S3UploadPart \/ S3Exists \/ S3DeletePath \/ LocalCall
    \/ Finish

SpecBackend == InitBackend /\ [][NextBackend]_vars

(***************************************************************************)
(* One multipart upload: S3.uploadData calls that share one metadata bag,  *)
(* and S3.abort calls for the bag's uploadId.  The store answers as it     *)
(* likes.                                                                  *)
(***************************************************************************)
\* the caller starts with an empty bag, or with a bag that carries the
\* uploadId of an upload it wants to go on with
InitMultipart ==
    /\ total \in 1..MaxChunks
    /\ \E id \in {0} \cup UploadIds :
          /\ bag = [EmptyBag EXCEPT !.uploadId = id]
          /\ mpu = [NoMultipart EXCEPT !.supplied = id]
    /\ s3last = NoS3Call
    /\ alast = NoAbort
    /\ store = NoStore /\ mlast = NoMove
    /\ inst = NoInst /\ ref = NoRef /\ rlast = NoRestartCall
    /\ hdr = NoHeaders /\ proc = [p \in Callers |-> Idle] /\ wire = [p \in Callers |-> NoRequest]
    /\ race = NoRace
    /\ resolved = NoResolved /\ sig = NoSig /\ del = NoDelete /\ net = NoNet
    /\ dev = NoDev /\ up = NoRetry /\ cmp = NoComplete
    /\ n = 0
    /\ fs = [dir |-> TRUE, target |-> Absent, tmp |-> FALSE, log |-> Absent, parts |-> NoParts]
    /\ fs0 = fs /\ inOrder = TRUE /\ faults = 0 /\ ops = {}
    /\ sent = NoParts /\ last = NoCall
    /\ src = Absent /\ tcs = 1 /\ tres = NoTransfer

multipartFrame == <<fs, localVars, transferVars, s3last, abortVars, moveVars, restartVars,
                    reqVars, raceVars, pathVars, signVars, deleteVars, backendVars, headerVars,
                    retryVars, completeVars>>

\* the caller passes total as totalChunks and an index of 1..total.
\* uploadPart is issued unless the call was a plain write or the upload could
\* not be created; the requests name the uploadId the call worked with
MultipartUploadData ==
    /\ n < MaxCalls
    /\ \E chunk \in 1..total, resp \in Resps :
          LET r == S3_uploadData(bag, chunk, total, resp)
              id == UploadIdText(r.bag.uploadId)
              parts == IF r.uploaded \/ (r.threw /\ resp.fail = "part") THEN {id} ELSE {}
              completions == IF r.completed THEN {id} ELSE {}
          IN  /\ bag' = r.bag
              /\ mpu' = [op |-> "uploadData",
                         ended |-> mpu.ended \cup (IF r.threw THEN {} ELSE completions),
                         asked |-> mpu.asked \cup completions,
                         parts |-> parts, completions |-> completions,
                         was |-> [ended |-> mpu.ended, asked |-> mpu.asked],
                         supplied |-> mpu.supplied,
                         creates |-> IF r.created /\ resp.fail # "create"
                                     THEN mpu.creates + 1 ELSE mpu.creates,
                         failed |-> IF r.threw THEN resp.fail ELSE "none"]
    /\ n' = n + 1
    /\ UNCHANGED multipartFrame

\* abort leaves the bag as it is
MultipartAbort ==
    /\ n < MaxCalls
    /\ \E status \in AbortStatuses :
          LET r == S3_abort(status)
          IN  mpu' = [op |-> "abort",
                      ended |-> mpu.ended \cup (IF r.threw THEN {} ELSE {AbortIdText(bag.uploadId)}),
                      asked |-> mpu.asked,
                      parts |-> {}, completions |-> {},
                      was |-> [ended |-> mpu.ended, asked |-> mpu.asked],
                      supplied |-> mpu.supplied, creates |-> mpu.creates, failed |-> "none"]
    /\ n' = n + 1
    /\ UNCHANGED <<bag, multipartFrame>>

NextMultipart == MultipartUploadData \/ MultipartAbort

SpecMultipart == InitMultipart /\ [][NextMultipart]_vars

(***************************************************************************)
(* The operations of one S3 instance, one after the other: the headers     *)
(* the instance holds, and the request each operation sends                *)
(***************************************************************************)
InitHeaders ==
    /\ dev = NoDev
    /\ resolved = NoResolved /\ sig = NoSig /\ del = NoDelete /\ net = NoNet
    /\ DevicesIdle

headerFrame == <<fs, n, localVars, transferVars, s3Vars, abortVars, moveVars, restartVars,
                 reqVars, raceVars, pathVars, signVars, deleteVars, backendVars, multipartVars,
                 retryVars, completeVars>>

\* one operation up to the fetch of its call
Operate ==
    /\ \E op \in S3Operations, data \in Bodies, contentType \in MimeTypes :
          LET c == Sent(Before_call(dev.this, op, data, contentType), MethodOf(op),
                        <<"/", "f">>, DataOf(op, data), <<>>)
          IN  dev' = [this |-> c.this, op |-> op, request |-> c.request]
    /\ UNCHANGED headerFrame

NextHeaders == Operate

SpecHeaders == InitHeaders /\ [][NextHeaders]_vars

(***************************************************************************)
(* One chunked upload to a fresh target of a Local device whose caller     *)
(* calls uploadData, again after a failure, until a call has returned for  *)
(* every index of 1..total                                                 *)
(***************************************************************************)
InitRetry ==
    /\ InitLocal
    /\ total > 1
    /\ ~fs.target.exists

Attempted(r, chunk, data, fault) ==
    /\ fault = NoFault \/ (r.hit /\ faults < MaxFaults)
    /\ fs' = r.fs
    /\ n' = n + 1
    /\ faults' = IF r.hit THEN faults + 1 ELSE faults
    /\ sent' = IF r.wrote THEN [sent EXCEPT ![chunk] = File(data)] ELSE sent
    /\ up' = [done |-> IF r.threw THEN up.done ELSE up.done \cup {chunk}]
    /\ UNCHANGED <<total, fs0, inOrder, ops, last, transferVars, s3Vars, abortVars, moveVars,
                   restartVars, reqVars, raceVars, pathVars, signVars, deleteVars,
                   backendVars, multipartVars, headerVars, completeVars>>

\* the caller uploads an index (a new one, or one again)
Attempt ==
    /\ n < MaxCalls
    /\ up.done # 1..total
    /\ \E chunk \in 1..total, data \in Payloads :
          Attempted(Local_uploadData(fs, data, chunk, total, NoFault), chunk, data, NoFault)

\* the same call, with one of its filesystem calls failing
AttemptFails ==
    /\ n < MaxCalls
    /\ up.done # 1..total
    /\ \E chunk \in 1..total, data \in Payloads, fault \in Faults \ {NoFault} :
          Attempted(Local_uploadData(fs, data, chunk, total, fault), chunk, data, fault)

NextRetry == Attempt \/ AttemptFails

SpecRetry == InitRetry /\ [][NextRetry]_vars

(***************************************************************************)
(* completeMultipartUpload: the body it builds from metadata['parts'].     *)
(* parts is an object, the sequence of its <<index, ETag>> entries in the  *)
(* order the indices were first assigned; a text is a sequence of          *)
(* characters and of whole tags.                                           *)
(***************************************************************************)
\* `${k}` of a non-negative integer: its decimal digits
RECURSIVE NumberText(_)
NumberText(k) ==
    IF k < 10 THEN <<DigitChars[k + 1]>>
    ELSE NumberText(k \div 10) \o <<DigitChars[(k % 10) + 1]>>

\* the entries in the order the keys were assigned, the keys as strings
Object_entries_InsertionOrder(o) == [i \in 1..Len(o) |-> <<NumberText(o[i][1]), o[i][2]>>]

\* Object.entries(o) of an object whose keys are integer indices: the
\* entries in ascending numeric order of the keys, the keys as strings
RECURSIVE Object_entries(_)
Object_entries(o) ==
    IF o = <<>> THEN <<>>
    ELSE LET k == CHOOSE i \in Keys(o) : \A j \in Keys(o) : i <= j
         IN  <<<<NumberText(k), Get(o, k)>>>> \o Object_entries(Remove(o, k))

\* `<Part><ETag>${etag}</ETag><PartNumber>${key}</PartNumber></Part>`
PartElement(etag, key) ==
    <<"<Part>", "<ETag>">> \o etag \o <<"</ETag>", "<PartNumber>">> \o key
        \o <<"</PartNumber>", "</Part>">>

\* for (const [key, etag] of Object.entries(parts)) body += ...
RECURSIVE PartElements(_, _)
PartElements(body, entries) ==
    IF entries = <<>> THEN body
    ELSE PartElements(body \o PartElement(Head(entries)[2], Head(entries)[1]), Tail(entries))

completeMultipartUpload(parts) ==
    PartElements(<<"<CompleteMultipartUpload>">>, Object_entries(parts))
        \o <<"</CompleteMultipartUpload>">>

\* the indices and the cleaned ETags of the parts
PartNumbers == {1, 2, 10}
CleanETags == {CleanETag(etag) : etag \in ETags}

InitComplete ==
    /\ cmp = NoComplete
    /\ resolved = NoResolved /\ sig = NoSig /\ del = NoDelete /\ net = NoNet
    /\ DevicesIdle

completeFrame == <<fs, n, localVars, transferVars, s3Vars, abortVars, moveVars, restartVars,
                   reqVars, raceVars, pathVars, signVars, deleteVars, backendVars,
                   multipartVars, headerVars, retryVars>>

\* metadata['parts'][chunk] = cleanETag
PartUploaded ==
    /\ \E chunk \in PartNumbers, etag \in CleanETags :
          cmp' = [parts |-> Put(cmp.parts, chunk, etag), built |-> FALSE, body |-> <<>>]
    /\ UNCHANGED completeFrame

\* completeMultipartUpload(path, uploadId, metadata['parts']) up to its call
Complete ==
    /\ cmp.parts # <<>>
    /\ cmp' = [cmp EXCEPT !.built = TRUE, !.body = completeMultipartUpload(cmp.parts)]
    /\ UNCHANGED completeFrame

NextComplete == PartUploaded \/ Complete

SpecComplete == InitComplete /\ [][NextComplete]_vars

(***************************************************************************)
(* Claims about the Local chunked upload                                   *)
(***************************************************************************)
RECURSIVE ConcatTo(_, _)
ConcatTo(s, k) == IF k = 0 THEN <<>> ELSE ConcatTo(s, k - 1) \o s[k].data

Received == {i \in 1..MaxChunks : sent[i].exists}

\* C1: to an absent target, uploadData with the indices 1, 2, ..., k in that
\* order and totalChunks = k (k >= 2) returns i on the i-th call, and after
\* the k-th call the target exists and holds the k payloads in index order.
C1_SequentialUpload ==
    (total >= 2 /\ ~fs0.target.exists /\ faults = 0 /\ ops = {"uploadData"}
        /\ inOrder /\ n >= 1 /\ n <= total)
    => /\ ~last.threw
       /\ last.ret = n
       /\ n = total => fs.target = File(ConcatTo(sent, total))

C1_Witness ==
    /\ total = 3 /\ n = 3 /\ inOrder /\ ops = {"uploadData"} /\ ~fs0.target.exists
    /\ last.ret = 3
    /\ sent[1].data = <<2, 1>> /\ sent[2].data = <<1>> /\ sent[3].data = <<2, 1>>
    /\ fs.target = File(<<2, 1, 1, 2, 1>>)

\* C2: in Local.upload and Local.uploadData, uploading an index that was
\* already received, with a different payload, does not increase the returned
\* chunksReceived, and the joined file uses the last-written payload.
C2_ReuploadIdempotent ==
    /\ (total >= 2 /\ last.had /\ last.changed /\ ~last.threw) => last.ret = last.before
    /\ (total >= 2 /\ ~fs0.target.exists /\ Received = 1..total /\ n > total)
          => fs.target = File(ConcatTo(sent, total))

\* C3: for every arrival order of the distinct indices 1..k through uploadData
\* with totalChunks = k to an absent target, the joined content is the
\* concatenation of the payloads in ascending index order.
C3_JoinAscending ==
    (total >= 2 /\ ~fs0.target.exists /\ faults = 0 /\ ops = {"uploadData"}
        /\ n = total /\ Received = 1..total)
    => /\ ~last.threw
       /\ fs.target = File(ConcatTo(sent, total))

C3_Witness ==
    /\ total = 3 /\ n = 3 /\ ops = {"uploadData"} /\ ~fs0.target.exists
    /\ Received = 1..3 /\ ~inOrder /\ last.chunk = 2
    /\ sent[1].data = <<1>> /\ sent[2].data = <<2, 1>> /\ sent[3].data = <<1>>
    /\ fs.target = File(<<1, 2, 1, 1>>)

\* C4: whatever the target held before (nothing, or other content), writing a
\* content in k >= 2 sequential chunks through uploadData leaves the target
\* with the same bytes as a single-shot Local.write of that content.
C4_ChunkedEqualsSingleShot ==
    (total >= 2 /\ faults = 0 /\ ops = {"uploadData"} /\ inOrder /\ n = total)
    => fs.target = Local_write(fs0, ConcatTo(sent, total), NoFault).fs.target

\* C9: between upload / uploadData calls (also after a call that failed
\* part-way) the number of non-empty lines of the chunk log equals the number
\* of part files in the tmp directory.
C9_LogMatchesParts == LogLines(fs) = PartFiles(fs)

\* C10: for a target that was absent when the chunked upload began, the target
\* does not exist while fewer than totalChunks distinct indices were received.
C10_NoTargetBeforeAll ==
    (total >= 2 /\ ~fs0.target.exists /\ Cardinality(Received) < total)
    => ~fs.target.exists

C20_UnsafeOnlyWhenOverlapping ==
    (\/ \E c \in Callers : race.calls[c].early \/ race.calls[c].missing
     \/ \A c \in Callers : race.calls[c].joined)
    => race.overlapped

\* caller 1 counted 3 log lines and entered joinChunks while caller 2 had not
\* written part 3 yet: its join appended parts 1 and 2 and found no part 3
C20_Witness ==
    /\ total = 3 /\ race.overlapped
    /\ race.calls[1].chunk = 2 /\ race.calls[1].received = 3
    /\ race.calls[1].early /\ race.calls[1].missing /\ race.calls[1].pc = "threw"
    /\ race.calls[2].chunk = 3 /\ race.calls[2].pc = "write"
    /\ fs.target = File(<<1, 2, 1>>) /\ fs.log.exists /\ ~fs.parts[3].exists

(***************************************************************************)
(* Claims about transfer                                                   *)
(***************************************************************************)
\* C5: after Local.transfer returns true, the destination's content is
\* byte-identical to the source's and has the same size, for every source
\* size (also a size above transferChunkSize that is no multiple of it).
C5_TransferIdentical ==
    (tres.kind = "local" /\ tres.ret /\ n = 1)
    => /\ fs.target.exists
       /\ fs.target.data = src.data
       /\ Len(fs.target.data) = Len(src.data)

\* C8: if a read, write or uploadData step of a transfer fails, then when
\* transfer throws the destination holds no target file and no chunk state
\* (tmp directory, chunk log, part files) for the destination path.
C8_FailedTransferRolledBack ==
    (tres.threw /\ n = 1)
    => /\ ~fs.target.exists
       /\ ~fs.tmp
       /\ ~fs.log.exists
       /\ PartFiles(fs) = 0

\* C11: transfer (Local and S3 sources) takes the single-shot path, one read
\* of the whole object and one destination write with no uploadData call,
\* exactly when size <= transferChunkSize (also when the two are equal), and
\* its result is then the result of that single write.
C11_SingleShotBoundary ==
    (tres.kind # "none" /\ src.exists)
    => LET size == Len(src.data)
       IN  /\ (size <= tcs) <=> (tres.calls.whole /\ tres.calls.uploads = 0)
           /\ size > tcs => tres.calls.writes = 0
           /\ (size <= tcs /\ ~tres.hit) => (tres.calls.writes = 1 /\ tres.ret /\ ~tres.threw)
           /\ (size <= tcs /\ tres.calls.writes = 1 /\ tres.threw) => tres.err = writeError

\* C12: transfer on a source path that does not exist fails with a
\* file-not-found error before any destination write or uploadData call is
\* made, and leaves the destination device unchanged.
C12_MissingSourceFails ==
    (tres.kind # "none" /\ ~src.exists)
    => /\ tres.threw
       /\ tres.err \in {Err("File Not Found", 0), Err("File not found", 0)}
       /\ tres.calls = NoCalls
       /\ fs = fs0

C12_Witness ==
    /\ ~src.exists /\ n = 2 /\ tres.kind = "s3"
    /\ tres.threw /\ tres.err = Err("File not found", 0)
    /\ tres.calls.writes = 0 /\ tres.calls.uploads = 0
    /\ ~fs.target.exists /\ ~fs.tmp

C14_AbortNeverThrows ==
    (\/ alast.op = "local" /\ ~alast.hadTmp /\ ~alast.hit
     \/ alast.op = "s3" /\ alast.status = 404)
    => ~alast.threw

\* C15: after a chunked local upload was joined successfully, and after a
\* Local.abort that returned true, the tmp_<basename> directory, the chunk log
\* and every part file of the target no longer exist; after the abort the
\* target file does not exist either.
C15_TmpDestroyed ==
    [][ /\ (n' = n + 1 /\ alast' = alast /\ total >= 2 /\ ~last'.threw /\ last'.ret = total)
              => (~fs'.tmp /\ ~fs'.log.exists /\ PartFiles(fs') = 0)
        /\ (n' = n + 1 /\ alast'.at = n' /\ alast'.op = "local" /\ alast'.ret)
              => (~fs'.tmp /\ ~fs'.log.exists /\ PartFiles(fs') = 0 /\ ~fs'.target.exists)
      ]_vars

\* an upload aborted with a part and the log on disk and the target present,
\* then started again and joined
C15_Witness ==
    /\ alast.op = "local" /\ alast.ret /\ alast.hadTarget /\ alast.hadFiles /\ alast.at = 2
    /\ total = 2 /\ n = 4 /\ last.ret = 2 /\ ~last.threw
    /\ fs.target.exists /\ ~fs.tmp /\ ~fs.log.exists /\ PartFiles(fs) = 0

(***************************************************************************)
(* Claims about move                                                       *)
(***************************************************************************)
\* C16: move(x, x) returns false and changes nothing: no file is created,
\* renamed or deleted and no backend request is issued, on Device.move and on
\* Local.move.
C16_MoveToItself ==
    [][ (n' = n + 1 /\ mlast'.op # "none" /\ mlast'.source = mlast'.target)
        => /\ ~mlast'.ret /\ ~mlast'.threw
           /\ mlast'.calls = 0
           /\ store' = store
      ]_vars

C16_Witness ==
    /\ mlast.op = "Device.move" /\ mlast.source = "b" /\ mlast.target = "b"
    /\ ~mlast.ret /\ ~mlast.threw /\ mlast.calls = 0
    /\ store.files["b"] = File(<<2, 1>>) /\ mlast.was = File(<<2, 1>>)

\* C17: move(source, target) with source # target returns true only if the
\* transfer and the deletion of source both succeeded, and then source no
\* longer exists and target holds the source's former content; if either step
\* fails, move returns false rather than throwing.
C17_MoveTrueOrFalse ==
    (mlast.op # "none" /\ mlast.source # mlast.target)
    => /\ ~mlast.threw
       /\ mlast.ret => /\ mlast.was.exists
                       /\ ~store.files[mlast.source].exists
                       /\ store.files[mlast.target] = mlast.was

(***************************************************************************)
(* Claims about the requests of an S3 device                               *)
(***************************************************************************)
\* C19: two operations issued concurrently on one S3 instance for
\* independent paths do not interfere: each request is sent with the
\* content-md5, x-amz-content-sha256, content-type and Authorization computed
\* from its own body and arguments, whatever the interleaving at await points.
C19_RequestsIndependent ==
    \A p \in Callers :
        wire[p].sent
        => /\ wire[p].headers.md5 = MD5(wire[p].body)
           /\ wire[p].headers.sha256 = SHA256(wire[p].body)
           /\ wire[p].headers.contentType = wire[p].op.contentType
           /\ wire[p].authorization =
                 Signature("PUT", wire[p].op.path, wire[p].op.parameters,
                           Prepared(NoHeaders, wire[p].op))

(***************************************************************************)
(* Claims about S3.uploadData                                              *)
(***************************************************************************)
\* the bag's received-count and indices; a bag without the key counts nothing
BagCount(b) == IF b.hasChunks THEN b.chunks ELSE 0
BagIndices(b) == IF b.hasParts THEN DOMAIN b.parts ELSE {}

\* C6: starting from an empty bag, after every successful uploadData call the
\* bag's received-count equals the number of distinct indices in parts;
\* re-uploading an index parts holds leaves the count unchanged and only
\* overwrites that index's ETag.
C6_CountMatchesParts ==
    [][ /\ ~s3last'.threw => BagCount(bag') = Cardinality(BagIndices(bag'))
        /\ (s3last'.uploaded /\ s3last'.chunk \in BagIndices(bag))
              => /\ BagCount(bag') = BagCount(bag)
                 /\ BagIndices(bag') = BagIndices(bag)
                 /\ bag'.parts[s3last'.chunk] = CleanETag(s3last'.etag)
                 /\ \A i \in BagIndices(bag) \ {s3last'.chunk} : bag'.parts[i] = bag.parts[i]
      ]_vars

C6_Witness ==
    /\ ~s3last.threw /\ s3last.uploaded /\ s3last.wasIn
    /\ s3last.chunk = 2 /\ s3last.etag = <<Quote, "a", Quote>> /\ bag.parts[2] = <<"a">>
    /\ BagIndices(bag) = {2, 3} /\ bag.parts[3] = <<"b">> /\ bag.chunks = 2

\* C7: completeMultipartUpload is issued only in a call after whose part
\* upload the received-count equals the totalChunks passed; with a bag that
\* started empty, one totalChunks and indices from 1..totalChunks, it is never
\* issued while an index of 1..totalChunks has no ETag in parts, and it is
\* issued in the call that uploads the last missing index.
C7_CompletionWhenAllReceived ==
    /\ s3last.completed => (s3last.uploaded /\ BagCount(bag) = total)
    /\ s3last.inRange
          => /\ s3last.completed => BagIndices(bag) = 1..total
             /\ (s3last.uploaded /\ BagIndices(bag) = 1..total) => s3last.completed

C7_Witness ==
    /\ total = 3 /\ s3last.inRange
    /\ s3last.completed /\ ~s3last.threw
    /\ s3last.chunk = 1 /\ ~s3last.wasIn
    /\ BagIndices(bag) = {1, 2, 3}

(***************************************************************************)
(* Claims about getAbsolutePath                                            *)
(***************************************************************************)
\* C27: getAbsolutePath is idempotent: getAbsolutePath of what getAbsolutePath
\* returned for a path is that same string.
C27_Idempotent ==
    resolved.pc = "twice" => resolved.twice = resolved.once

\* a path with a backslash and a '..' that pops a segment
C27_Witness ==
    /\ resolved.pc = "twice"
    /\ resolved.path = <<"a", Backslash, ".", ".", Slash>>
    /\ resolved.once = <<Slash>>
    /\ resolved.twice = resolved.once

\* the characters after the leading '/' name segments that are not empty,
\* not '.' and not '..'
Segments(s) == IF Len(s) = 1 THEN <<>> ELSE Split(Tail(s))
CleanPath(s) ==
    /\ Len(s) >= 1 /\ s[1] = Slash
    /\ \A i \in 1..Len(s) : s[i] # Backslash
    /\ \A k \in 1..Len(Segments(s)) : Segments(s)[k] \notin {<<>>, Dot, DotDot}

\* C28: getAbsolutePath returns a string that starts with a single '/' and
\* has no backslash and no empty, '.' or '..' segment; a '..' with nothing to
\* pop does nothing: '/a/..' and '/../..' give '/', '/a/b/../c' gives '/a/c',
\* '//a//b' gives '/a/b'.
C28_CleanPath ==
    resolved.pc # "given" =>
        /\ CleanPath(resolved.once)
        /\ resolved.path = <<"/", "a", "/", ".", ".">> => resolved.once = <<"/">>
        /\ resolved.path = <<"/", ".", ".", "/", ".", ".">> => resolved.once = <<"/">>
        /\ resolved.path = <<"/", "a", "/", "b", "/", ".", ".", "/", "c">>
              => resolved.once = <<"/", "a", "/", "c">>
        /\ resolved.path = <<"/", "/", "a", "/", "/", "b">> => resolved.once = <<"/", "a", "/", "b">>

\* '..' with no retained segment to pop
C28_Witness ==
    /\ resolved.pc = "once"
    /\ resolved.path = <<"/", ".", ".", "/", ".", ".">>
    /\ resolved.once = <<"/">>

(***************************************************************************)
(* Claims about getSignatureV4                                             *)
(***************************************************************************)
\* s is in sorted order when upper and lower case are not told apart
SortedIgnoringCase(s) ==
    \A i, j \in 1..Len(s) : i < j => ~Before(ToLowerCase(s[j]), ToLowerCase(s[i]))

Occurrences(s, sub) ==
    Cardinality({k \in 1..(Len(s) - Len(sub) + 1) : SubSeq(s, k, k + Len(sub) - 1) = sub})

\* C26: with x-amz-date and x-amz-content-sha256 set, getSignatureV4 returns
\* 'AWS4-HMAC-SHA256 Credential=<accessKey>/<first 8 characters of
\* x-amz-date>/<region>/s3/aws4_request,SignedHeaders=<names>,Signature=<sig>'
\* with one 'Credential=', one 'SignedHeaders=' and one 'Signature=' of 64
\* hexadecimal digits, and leaves the device's state as it was.
C26_AuthorizationValue ==
    [][(sig.pc = "called" /\ sig'.pc = "returned"
        /\ {X_AMZ_DATE, X_AMZ_CONTENT_SHA256} \subseteq Keys(sig.this.amzHeaders)) =>
           LET out == sig'.out
               this == sig.this
           IN  /\ ~out.threw
               /\ out.authorization =
                     ALGORITHM \o <<" ", "C", "r", "e", "d", "e", "n", "t", "i", "a", "l", "=">> \o this.accessKey \o <<"/">>
                     \o SubSeq(Get(this.amzHeaders, X_AMZ_DATE), 1, 8) \o <<"/">> \o this.region
                     \o <<"/", "s", "3", "/", "a", "w", "s", "4", "_", "r", "e", "q", "u", "e", "s", "t", ",", "S", "i", "g", "n", "e", "d", "H", "e", "a", "d", "e", "r", "s", "=">> \o JoinBy(out.signedHeaders, <<";">>) \o <<",", "S", "i", "g", "n", "a", "t", "u", "r", "e", "=">> \o out.signature
               /\ Occurrences(out.authorization, <<"C", "r", "e", "d", "e", "n", "t", "i", "a", "l", "=">>) = 1
               /\ Occurrences(out.authorization, <<"S", "i", "g", "n", "e", "d", "H", "e", "a", "d", "e", "r", "s", "=">>) = 1
               /\ Occurrences(out.authorization, <<"S", "i", "g", "n", "a", "t", "u", "r", "e", "=">>) = 1
               /\ Len(out.signature) = 64
               /\ \A k \in 1..Len(out.signature) :
                     \E d \in 1..Len(HexDigits) : out.signature[k] = HexDigits[d]
               /\ sig'.this = this]_vars

\* the signature of a request of an instance that holds the two headers and
\* a Host header besides
C26_Witness ==
    /\ sig.pc = "returned"
    /\ ~sig.out.threw
    /\ {X_AMZ_DATE, X_AMZ_CONTENT_SHA256} \subseteq Keys(sig.this.amzHeaders)
    /\ <<"H", "o", "s", "t">> \in Keys(sig.this.headers)
    /\ Len(sig.parameters) = 2
    /\ Occurrences(sig.out.authorization, <<"S", "i", "g", "n", "a", "t", "u", "r", "e", "=">>) = 1

(***************************************************************************)
(* Claims about Local.delete                                               *)
(***************************************************************************)
\* C29: when Local.delete(path, recursive) returns true nothing exists at
\* path afterwards, whether path was a file or a directory and whether
\* recursive was true or false; when the path could not be removed it
\* returns false.
C29_GoneWhenTrue ==
    (del.pc = "returned" /\ del.ret) => del.node.kind = "absent"

(***************************************************************************)
(* Claims about the requests of the devices                                *)
(***************************************************************************)
ObjectOps == {"write", "read", "delete", "uploadPart", "exists"}

\* the key a request names: the path of its uri, for MinIO after the bucket
KeyOf(this, request) ==
    IF this.kind = "minio"
    THEN SubSeq(request.uri, Len(BucketName(this.host)) + 2, Len(request.uri))
    ELSE request.uri

\* path below root
UnderRoot(root, path) == IF root = <<>> THEN path ELSE root \o <<Slash>> \o path

\* C21: every backend operation acts on the caller's path resolved against
\* the device root: the object key of the S3 write / read / delete /
\* uploadPart / HEAD requests and the file path of the Local filesystem calls
\* is the given path prefixed by getRoot().
C21_PathUnderRoot ==
    /\ (net.this.kind \in Buckets /\ net.op \in ObjectOps) =>
          KeyOf(net.this, net.did.log[1])
             = getAbsolutePath(ObjectUri(UnderRoot(net.this.root, net.path),
                                         net.op \in {"write", "uploadPart"}))
    /\ (net.this.kind = "local" /\ net.op # "none") =>
          net.did.log[1].uri = UnderRoot(net.this.root, net.path)

\* the keys the paths of ObjectPaths name when they are taken as they are given
KeyAsGiven(path, keepQuery) ==
    IF path = <<>> THEN <<"/">>
    ELSE IF path = <<"f">> THEN <<"/", "f">>
    ELSE IF path = <<"d", "/", "f">> THEN <<"/", "d", "/", "f">>
    ELSE IF path = <<"d", "/", ".", ".", "/", "f">> THEN <<"/", "f">>
    ELSE IF path = <<"a", " ", "f">> THEN <<"/", "a", "%", "2", "0", "f">>
    ELSE IF keepQuery THEN <<"/", "f", "?", "v">>
    ELSE <<"/", "f", "%", "3", "F", "v">>

\* C21, amended: the object key of the S3 write / read / delete / uploadPart
\* / HEAD requests and the file path of the Local filesystem calls is the
\* caller's path as it is given (for S3: escaped and resolved), without
\* getRoot(); deletePath alone lists the path below getRoot().
C21_PathAsGiven ==
    /\ (net.this.kind \in Buckets /\ net.op \in ObjectOps) =>
          /\ Len(net.did.log) = 1
          /\ KeyOf(net.this, net.did.log[1])
                = KeyAsGiven(net.path, net.op \in {"write", "uploadPart"})
    /\ (net.this.kind = "local" /\ net.op # "none") => net.did.log[1].uri = net.path
    /\ (net.this.kind \in Buckets /\ net.op = "deletePath") =>
          /\ net.did.log[1].method = "GET"
          /\ KeyOf(net.this, net.did.log[1]) = <<"/">>
          /\ Get(net.did.log[1].parameters, "prefix") = UnderRoot(net.this.root, net.path)

\* a write to d/f on a device whose root is r asks for /d/f
C21_Witness ==
    /\ net.this = Device("s3", <<"r">>)
    /\ net.op = "write"
    /\ net.path = <<"d", "/", "f">>
    /\ net.did.log[1].uri = <<"/", "d", "/", "f">>
    /\ net.did.ret

\* C22: on a response that is not 2xx, S3.call and MinIO.call throw an error
\* that carries the status code and the response body, after one request:
\* a failed request is not tried again.
C22_ThrowsAfterOneAttempt ==
    (/\ net.this.kind \in Buckets
     /\ net.op \in {"write", "read", "delete", "uploadPart"}
     /\ net.outcome.kind = "response" /\ ~Ok(net.outcome.status)) =>
        /\ net.did.threw
        /\ net.did.err = HttpError(net.outcome.status, net.outcome.text)
        /\ net.did.attempts = 1
        /\ Len(net.did.log) = 1

C22_Witness ==
    /\ net.this.kind = "minio"
    /\ net.op = "delete"
    /\ net.outcome = Response(404, "NoSuchKey")
    /\ net.did.threw
    /\ net.did.err = HttpError(404, "NoSuchKey")

\* C23: S3.exists rejects when fetch rejects (a failure of the transport, as
\* with wrong credentials or no network); it does not give a boolean then.
C23_ExistsRejects ==
    (net.this.kind \in Buckets /\ net.op = "exists" /\ net.outcome.kind = "rejected") =>
        net.did.threw

\* what the claim has deletePath ask the store, page after page
Step(kind, token, keys) == [kind |-> kind, token |-> token, keys |-> keys]
RECURSIVE PageByPage(_, _, _)
PageByPage(pages, at, token) ==
    <<Step("list", token, <<>>)>>
    \o (IF pages[at].keys = <<>> THEN <<>>
        ELSE <<Step("delete quiet", <<>>, pages[at].keys)>>
             \o (IF pages[at].next = <<>> \/ at = Len(pages) THEN <<>>
                 ELSE PageByPage(pages, at + 1, pages[at].next)))

Asked(log) ==
    [k \in 1..Len(log) |->
        IF log[k].method = "GET"
        THEN Step("list",
                  IF "continuation-token" \in Keys(log[k].parameters)
                  THEN Get(log[k].parameters, "continuation-token") ELSE <<>>,
                  <<>>)
        ELSE Step(log[k].body.kind, <<>>, log[k].body.keys)]

\* C24: S3.deletePath lists the prefix page by page; for each page with at
\* least one key it issues one Quiet batch delete naming every key of the
\* page, it passes each page's continuation token to the next list call, and
\* it returns true after the first page without a token or without keys.
C24_DeletesPageByPage ==
    (net.this.kind \in Buckets /\ net.op = "deletePath") =>
        /\ net.did.ret /\ ~net.did.threw
        /\ Asked(net.did.log) = PageByPage(net.pages, 1, <<>>)

(***************************************************************************)
(* Claims about the states of a multipart upload                           *)
(***************************************************************************)
\* C30: Completed and Aborted are terminal states of a multipart upload:
\* over the uploadData calls that share one metadata bag,
\* completeMultipartUpload is issued at most once for an uploadId, and no
\* uploadPart or completion is issued for an uploadId whose completion or
\* abort succeeded before.
C30_TerminalStates ==
    mpu.op = "uploadData" =>
        /\ mpu.completions \cap mpu.was.asked = {}
        /\ (mpu.parts \cup mpu.completions) \cap mpu.was.ended = {}

(***************************************************************************)
(* Claims about the host of a MinIO device                                 *)
(***************************************************************************)
HostOf(this) == this.bucket \o <<".">> \o this.endpoint

\* C40: whenever no MinIO.call is in progress (after a call that succeeded,
\* that was answered with a status that is not 2xx, or whose fetch rejected)
\* headers.host is '<bucket>.<endpoint>', so that every call sends its
\* request to the path '/<bucket>/...' with the endpoint as its host.
C40_HostRestored ==
    net.this.kind = "minio" =>
        /\ net.this.host = HostOf(net.this)
        /\ net.op # "none" =>
              /\ net.did.this.host = HostOf(net.this)
              /\ \A i \in 1..Len(net.did.log) :
                    /\ net.did.log[i].host = net.this.endpoint
                    /\ SubSeq(net.did.log[i].uri, 1, Len(net.this.bucket) + 2)
                          = <<Slash>> \o net.this.bucket \o <<Slash>>

(***************************************************************************)
(* Claims about the headers of the requests of an S3 instance              *)
(***************************************************************************)
\* C37: every request an S3 device sends carries an x-amz-content-sha256
\* header that is the SHA-256 of the request's own body (of the empty string
\* for a request without a body), whatever operation ran before it.
C37_HashOfOwnBody ==
    dev.op # "none" =>
        /\ X_AMZ_CONTENT_SHA256 \in Keys(dev.request.headers)
        /\ Get(dev.request.headers, X_AMZ_CONTENT_SHA256) = HexDigest(dev.request.body)

\* C38: the range header is sent only by a read that was given a length:
\* every other operation, also after a ranged read, is sent and signed
\* without a range header.
C38_RangeOnlyOnRangedRead ==
    (dev.op \notin {"none", "readRange"}) =>
        /\ RANGE \notin Keys(dev.request.headers)
        /\ \A i \in 1..Len(dev.request.signedHeaders) : dev.request.signedHeaders[i] # RANGE

\* C39: the header names SignedHeaders lists are the names of the headers
\* the request carries (Authorization aside), with the values the request
\* carries: no header with an empty value is signed but not sent.
C39_SignedAreSent ==
    dev.op # "none" =>
        /\ {dev.request.signedHeaders[i] : i \in 1..Len(dev.request.signedHeaders)}
              = Keys(dev.request.headers)
        /\ \A i \in 1..Len(dev.request.signedHeaders) :
              dev.request.signedHeaders[i] \in Keys(dev.request.headers)
                 => dev.request.headerLines[i]
                       = dev.request.signedHeaders[i] \o <<":">>
                         \o Get(dev.request.headers, dev.request.signedHeaders[i])

(***************************************************************************)
(* Claims about the calls a chunked transfer makes                         *)
(***************************************************************************)
\* the bytes the source holds from offset on, at most length of them
SourceBytes(content, offset, length) ==
    SubSeq(content, offset + 1, IF offset + length > Len(content) THEN Len(content)
                                ELSE offset + length)

\* data begins with the bytes of prefix
StartsWith(data, prefix) ==
    Len(data) >= Len(prefix) /\ SubSeq(data, 1, Len(prefix)) = prefix

\* C33: a transfer of a source larger than transferChunkSize in which no
\* call fails calls the destination's uploadData exactly
\* ceil(size / chunkSize) times, with the indices 1, 2, ..., totalChunks in
\* this order, every call with the same totalChunks, the i-th call carrying
\* the source bytes that start at offset (i - 1) * chunkSize.
C33_ChunkedCalls ==
    (tres.kind # "none" /\ src.exists /\ Len(src.data) > tcs /\ ~tres.hit)
    => LET totalChunks == Ceil(Len(src.data), tcs)
           log == tres.calls.log
       IN  /\ Len(log) = totalChunks
           /\ \A i \in 1..Len(log) :
                  /\ log[i].chunk = i
                  /\ log[i].chunks = totalChunks
                  /\ StartsWith(log[i].data, SourceBytes(src.data, (i - 1) * tcs, tcs))

(***************************************************************************)
(* Claims about a join that finds a part file missing                      *)
(***************************************************************************)
\* the smallest index of a non-empty set of indices
Lowest(indices) == CHOOSE i \in indices : \A j \in indices : i <= j

\* C35: when the join of a chunked local upload runs (the log reaches
\* totalChunks lines) and a part file with an index in 1..totalChunks is
\* missing, the call fails with an error and the join has appended to the
\* target exactly the parts before the first missing index, in index order.
C35_JoinStopsAtGap ==
    [][ LET chunk == last'.chunk
            received == IF last'.op = "upload" /\ fs.parts[chunk].exists
                        THEN LogLines(fs) ELSE LogLines(fs) + 1
            parts == [fs.parts EXCEPT ![chunk] = sent'[chunk]]
            missing == {i \in 1..total : ~parts[i].exists}
        IN  (n' = n + 1 /\ faults' = faults /\ total > 1 /\ received = total /\ missing # {})
            => /\ last'.threw
               /\ fs'.target = IF Lowest(missing) = 1 THEN fs.target
                               ELSE appendFile(fs.target, ConcatTo(parts, Lowest(missing) - 1))
      ]_vars

C35_Witness ==
    /\ total = 3 /\ n = 3 /\ faults = 0 /\ ops = {"uploadData"}
    /\ last.threw /\ last.chunk = 2 /\ last.before = 2
    /\ ~fs0.target.exists
    /\ fs.target = File(sent[1].data \o sent[2].data)
    /\ fs.log.exists /\ PartFiles(fs) = 0

(***************************************************************************)
(* Claims about a chunked local upload that is retried                     *)
(***************************************************************************)
\* C36: once a Local.uploadData call has returned for every index of
\* 1..totalChunks (after failed calls, some indices uploaded more than
\* once), the join has run: the target holds the parts last written for the
\* indices 1..totalChunks, in ascending index order.
C36_AllUploadedThenJoined ==
    (up.done = 1..total) => fs.target = File(ConcatTo(sent, total))

(***************************************************************************)
(* Claims about the uploadId of a multipart upload                         *)
(***************************************************************************)
\* C31: over the uploadData calls that share one metadata bag, a multipart
\* upload is created at most once, and only when the bag carries no
\* uploadId; with an uploadId supplied by the caller no upload is created
\* and every uploadPart and the completion name the supplied uploadId.
C31_OneUploadPerBag ==
    /\ mpu.creates <= 1
    /\ mpu.supplied # 0 =>
          /\ mpu.creates = 0
          /\ mpu.parts \cup mpu.completions \subseteq {UploadIdText(mpu.supplied)}

\* C32: an uploadData call whose createMultipartUpload fails leaves the bag
\* without an uploadId; one whose uploadPart fails leaves the bag's count and
\* the ETags of parts as they were and the bag carries the upload's uploadId.
C32_FailureLeavesBagResumable ==
    [][ (n' = n + 1 /\ mpu'.op = "uploadData") =>
            /\ mpu'.failed = "create" => bag'.uploadId = 0
            /\ mpu'.failed = "part" =>
                  /\ bag'.chunks = bag.chunks
                  /\ bag'.parts = bag.parts
                  /\ bag'.uploadId # 0
      ]_vars

(***************************************************************************)
(* Claims about the body of CompleteMultipartUpload                        *)
(***************************************************************************)
\* C34: the body completeMultipartUpload builds holds exactly one <Part>
\* element for every entry of parts, with the entry's ETag and index, and
\* the elements are in ascending numeric order of the indices, whatever the
\* order in which the indices were put into parts.
C34_PartsAscending ==
    cmp.built =>
        \E order \in [1..Len(cmp.parts) -> Keys(cmp.parts)] :
            /\ \A i, j \in 1..Len(cmp.parts) : i < j => order[i] < order[j]
            /\ cmp.body =
                  <<"<CompleteMultipartUpload>">>
                  \o JoinBy([i \in 1..Len(cmp.parts) |->
                               PartElement(Get(cmp.parts, order[i]), NumberText(order[i]))], <<>>)
                  \o <<"</CompleteMultipartUpload>">>

C34_Witness ==
    /\ cmp.built
    /\ KeyList(cmp.parts) = <<10, 2, 1>>
    /\ cmp.body = <<"<CompleteMultipartUpload>",
                    "<Part>", "<ETag>", "a", "</ETag>", "<PartNumber>", "1", "</PartNumber>", "</Part>",
                    "<Part>", "<ETag>", "b", "</ETag>", "<PartNumber>", "2", "</PartNumber>", "</Part>",
                    "<Part>", "<ETag>", "a", "</ETag>", "<PartNumber>", "1", "0", "</PartNumber>", "</Part>",
                    "</CompleteMultipartUpload>">>


============================================================================
